---------------------------- MODULE Spec2Model ----------------------------
(***************************************************************************)
(* Property evaluation engine of buscador-casita-chiquis.                  *)
(*                                                                         *)
(* The engine lives in utils.js (src/unnamed/part_002) and reads the       *)
(* process-wide singletons CONFIG, CONDITIONS and WEIGHTS of config.js,    *)
(* which the handlers of app.js mutate.                                    *)
(*                                                                         *)
(* Number representation.  The code computes in IEEE doubles.  The model   *)
(* computes the same quantities exactly, in integers:                      *)
(*   - rates (ESCRIBANO, SELLOS, ...) are held in basis points, 1/RateDen, *)
(*     the granularity of the configuration inputs (step 0.01 %);          *)
(*   - negotiation percentages are held in half percents, 1/PctDen of the  *)
(*     price, the granularity of the sliders (step 0.5);                   *)
(*   - tu10, total and dif are held in tenths of a USD (Decimos), because  *)
(*     precioFinal * 0.1 is the one line item the code does not round;     *)
(*   - Math.round is round-half-up, floor(x + 1/2).                        *)
(* A raw cell of the sheet is a sequence of one-character strings.         *)
(***************************************************************************)
EXTENDS Integers, Sequences, FiniteSets, TLC

VARIABLES
  CONFIG,       \* config.js: let CONFIG = loadConfig()
  CONDITIONS,   \* config.js: let CONDITIONS = loadConditions()  (key -> enabled)
  WEIGHTS,      \* config.js: let WEIGHTS = loadWeights()  (key -> [weight, enabled])
  REF_M2,       \* config.js: let REF_M2 = loadRefM2()  (barrio -> USD per m2)
  casita_weights, \* localStorage item 'casita_weights': what saveWeights stored
  state,        \* config.js: let state = { ... }, the fields the model follows
  autoRefreshInterval, \* config.js: let autoRefreshInterval = null, or a timer id
  timers,       \* the browser's interval timers that are set
  hidden,       \* document.hidden
  enVuelo,      \* the asynchronous requests awaiting their response
  compraState,  \* part_003: let compraState = { propertyKey, senaUSD }
  nube,         \* the data row of the Compra tab of the sheet
  ultimoCambio, \* history: compraState as the user's last change left it
  dolarEstimado,\* state.dolarEstimado: FX rate simulated in the detail modal
  p,            \* the raw listing row under evaluation (one row of parseCSV)
  costs,        \* the last calculateCosts call: its arguments and its result
  quita,        \* the last calculateQuitaNecesaria call: arguments and result
  attr,         \* the last scoreAttribute call: arguments and result
  calls         \* history of calculateCosts calls with the CONFIG each one saw

vars == <<CONFIG, CONDITIONS, WEIGHTS, REF_M2, casita_weights, state, autoRefreshInterval, timers, hidden, enVuelo, compraState, nube, ultimoCambio, dolarEstimado, p, costs, quita, attr, calls>>

-----------------------------------------------------------------------------
(* JavaScript values *)

\* null / undefined / NaN: the falsy non-number
NULL == -1

\* the quotient of a positive number by zero
Infinity == -2

\* x || y on a number-or-null x
OrElse(x, y) == IF x = NULL \/ x = 0 THEN y ELSE x

Max(a, b) == IF a >= b THEN a ELSE b

\* Math.round(n / d) for d > 0: floor(n/d + 1/2), halves go up
Round(n, d) == (n + d \div 2) \div d

-----------------------------------------------------------------------------
(* Units of the integer representation *)

RateDen == 10000   \* a rate r of the code is r * RateDen basis points
PctDen == 200      \* a percentage n of the code is 2n half percents; 100 % = PctDen
Decimos == 10      \* tenths of a USD: precioFinal * 0.1 = precioFinal / Decimos
PctUnit == 2       \* half percents in one percent (slider step 0.5)
PctMax == PctDen \div PctUnit   \* 100 %

-----------------------------------------------------------------------------
(* config.js / part_001: DEFAULT_CONFIG *)

DEFAULT_CONFIG ==
  [ CREDITO_ARS   |-> 126000000,
    DOLAR_BASE    |-> 1450,
    PRESUPUESTO   |-> 35000,
    NEGOCIACION   |-> 0,
    ESCRIBANO     |-> 242,
    SELLOS_EXENTO |-> 140000,
    SELLOS        |-> 175,
    REGISTRALES   |-> 40,
    INMOB         |-> 484,
    HIPOTECA      |-> 100,
    CERTIFICADOS  |-> 300,
    AUTO_REFRESH  |-> 10 ]

-----------------------------------------------------------------------------
(* utils.js: credit and costs *)

\* A plausible slip: the simulated FX rate of the modal read as a hidden global
getCreditoUSD_hidden(dolar) ==
  LET tc == OrElse(OrElse(dolarEstimado, dolar), CONFIG.DOLAR_BASE)
  IN  Round(CONFIG.CREDITO_ARS, tc)

\* A plausible slip: the USD credit scaled with the rate instead of against it
getCreditoUSD_inverted(dolar) ==
  LET tc == OrElse(dolar, CONFIG.DOLAR_BASE)
  IN  Round((CONFIG.CREDITO_ARS \div CONFIG.DOLAR_BASE) * tc, CONFIG.DOLAR_BASE)

\* Math.round(CONFIG.CREDITO_ARS / tc): NaN for a rate that is NaN, Infinity
\* for a rate of zero
getCreditoUSD(dolar) ==
  LET tc == OrElse(dolar, CONFIG.DOLAR_BASE)
  IN  IF tc = NULL THEN NULL
      ELSE IF tc = 0 THEN Infinity
      ELSE Round(CONFIG.CREDITO_ARS, tc)

\* Line 113: the down payment, in tenths of a USD
tu10(precioFinal, creditoUSD) ==
  Max(Decimos * (precioFinal - creditoUSD), precioFinal)

\* Line 115: the stamp tax.  Slips: the boundary excluded; the exemption inverted.
sell_strict(precioFinal) ==
  IF precioFinal < CONFIG.SELLOS_EXENTO THEN 0
  ELSE Round(precioFinal * CONFIG.SELLOS, RateDen)

sell_inverted(precioFinal) ==
  IF precioFinal >= CONFIG.SELLOS_EXENTO THEN 0
  ELSE Round(precioFinal * CONFIG.SELLOS, RateDen)

sell(precioFinal) ==
  IF precioFinal <= CONFIG.SELLOS_EXENTO THEN 0
  ELSE Round(precioFinal * CONFIG.SELLOS, RateDen)

\* Lines 114-118: a percentage line item.  A slip: Math.floor for Math.round.
gasto_floor(precioFinal, rate) == (precioFinal * rate) \div RateDen

gasto(precioFinal, rate) == Round(precioFinal * rate, RateDen)

\* calculateCosts(precio, { tieneInmob, dolar, negociacionPct }).
\* negociacionPct in half percents; tu10, total, dif in tenths of a USD.
calculateCosts(precio, tieneInmob, dolar, negociacionPct) ==
  LET creditoUSD  == getCreditoUSD(dolar)
      precioFinal == Round(precio * (PctDen - negociacionPct), PctDen)
      t10   == tu10(precioFinal, creditoUSD)
      escr  == gasto(precioFinal, CONFIG.ESCRIBANO)
      sll   == sell(precioFinal)
      reg   == gasto(precioFinal, CONFIG.REGISTRALES)
      inmob == IF tieneInmob THEN gasto(precioFinal, CONFIG.INMOB) ELSE 0
      hip   == gasto(precioFinal, CONFIG.HIPOTECA)
      cert  == CONFIG.CERTIFICADOS
      total == t10 + Decimos * (escr + sll + reg + inmob + hip + cert)
  IN  [ precio |-> precioFinal, creditoUSD |-> creditoUSD,
        tu10 |-> t10, escr |-> escr, sell |-> sll, reg |-> reg,
        inmob |-> inmob, hip |-> hip, cert |-> cert, total |-> total,
        ok  |-> total <= Decimos * CONFIG.PRESUPUESTO,
        dif |-> Decimos * CONFIG.PRESUPUESTO - total ]

\* calculateQuitaNecesaria(precio, tieneInmob, dolar).
\* precioTarget1 = num1 / den1 and precioTarget2 = num2 / den2 are kept as exact
\* quotients; precioTarget1 > umbral (= creditoUSD / 0.9) is decided by cross
\* multiplication, with the common factor 10 removed.  quitaPct is returned as
\* the fraction quitaNum / quitaDen of the price (quitaPct = 100 * quitaNum /
\* quitaDen), so quitaPct > 0 iff quitaNum > 0 and quitaPct <= 20 iff
\* 5 * quitaNum <= quitaDen.
quitaDe(precio, num, den) ==
  LET quitaNum == IF precio > 0 THEN Max(0, precio * den - num) ELSE 0
      quitaDen == IF precio > 0 THEN precio * den ELSE 1
  IN  [ precioTarget |-> Round(num, den),
        quitaNum |-> quitaNum, quitaDen |-> quitaDen,
        quitaUSD |-> Round(precio * den - num, den),
        esRealista |-> quitaNum > 0 /\ quitaNum <= quitaDen \div 5 ]

\* A slip: the fixed certificate fee left out of the inverse
calculateQuitaNecesaria_nocert(precio, tieneInmob, dolar) ==
  LET creditoUSD == getCreditoUSD(dolar)
      costosRate == CONFIG.ESCRIBANO + CONFIG.SELLOS + CONFIG.REGISTRALES
                    + (IF tieneInmob THEN CONFIG.INMOB ELSE 0) + CONFIG.HIPOTECA
      a1   == CONFIG.PRESUPUESTO + creditoUSD
      den1 == RateDen + costosRate
      a2   == CONFIG.PRESUPUESTO
      den2 == RateDen \div Decimos + costosRate
      rama1 == a1 * (RateDen - RateDen \div Decimos) > creditoUSD * den1
  IN  IF rama1 THEN quitaDe(precio, a1 * RateDen, den1)
               ELSE quitaDe(precio, a2 * RateDen, den2)

calculateQuitaNecesaria(precio, tieneInmob, dolar) ==
  LET creditoUSD == getCreditoUSD(dolar)
      costosRate == CONFIG.ESCRIBANO + CONFIG.SELLOS + CONFIG.REGISTRALES
                    + (IF tieneInmob THEN CONFIG.INMOB ELSE 0) + CONFIG.HIPOTECA
      a1   == CONFIG.PRESUPUESTO + creditoUSD - CONFIG.CERTIFICADOS
      den1 == RateDen + costosRate
      a2   == CONFIG.PRESUPUESTO - CONFIG.CERTIFICADOS
      den2 == RateDen \div Decimos + costosRate
      rama1 == a1 * (RateDen - RateDen \div Decimos) > creditoUSD * den1
  IN  IF rama1 THEN quitaDe(precio, a1 * RateDen, den1)
               ELSE quitaDe(precio, a2 * RateDen, den2)

-----------------------------------------------------------------------------
(* app.js: configuration handlers *)

\* updateConfig(key, value): CONFIG[key] = value; saveConfig; render().
\* render() rebuilds every derived view from CONFIG: the stored results of the
\* engine are recomputed from their arguments.
CostsOf(a) == calculateCosts(a.precio, a.tieneInmob, a.dolar, a.negociacionPct)
QuitaOf(a) == calculateQuitaNecesaria(a.precio, a.tieneInmob, a.dolar)

RerenderCosts ==
  IF costs = <<>> THEN costs' = <<>>
  ELSE \E a \in {costs[1].args} : costs' = <<[args |-> a, res |-> CostsOf(a)']>>

RerenderQuita ==
  IF quita = <<>> THEN quita' = <<>>
  ELSE \E a \in {quita[1].args} : quita' = <<[args |-> a, res |-> QuitaOf(a)']>>

-----------------------------------------------------------------------------
(* Raw cells.  A cell of the sheet is a sequence of one-character strings;  *)
(* an absent field (undefined) reads as the empty cell, as (valor || '').   *)

\* the result of parseInt / parseFloat on a cell with no leading number
NaN == <<>>

\* String.prototype.toLowerCase on the letters the cells of the sheet use
LowerOf(c) ==
  CASE c = "A" -> "a" [] c = "B" -> "b" [] c = "C" -> "c" [] c = "D" -> "d"
    [] c = "E" -> "e" [] c = "F" -> "f" [] c = "G" -> "g" [] c = "H" -> "h"
    [] c = "I" -> "i" [] c = "J" -> "j" [] c = "K" -> "k" [] c = "L" -> "l"
    [] c = "M" -> "m" [] c = "N" -> "n" [] c = "O" -> "o" [] c = "P" -> "p"
    [] c = "Q" -> "q" [] c = "R" -> "r" [] c = "S" -> "s" [] c = "T" -> "t"
    [] c = "U" -> "u" [] c = "V" -> "v" [] c = "W" -> "w" [] c = "X" -> "x"
    [] c = "Y" -> "y" [] c = "Z" -> "z" [] c = "Á" -> "á" [] c = "É" -> "é"
    [] c = "Í" -> "í" [] c = "Ó" -> "ó" [] c = "Ú" -> "ú" [] c = "Ñ" -> "ñ"
    [] OTHER -> c

toLowerCase(s) == [i \in 1..Len(s) |-> LowerOf(s[i])]

RECURSIVE trimStart(_)
trimStart(s) == IF s # <<>> /\ Head(s) = " " THEN trimStart(Tail(s)) ELSE s

RECURSIVE trimEnd(_)
trimEnd(s) ==
  IF s # <<>> /\ s[Len(s)] = " " THEN trimEnd(SubSeq(s, 1, Len(s) - 1)) ELSE s

\* String.prototype.trim
trim(s) == trimEnd(trimStart(s))

\* String.prototype.includes
includes(text, needle) ==
  \E i \in 1..(Len(text) - Len(needle) + 1) :
     SubSeq(text, i, i + Len(needle) - 1) = needle

DigitOf(c) ==
  CASE c = "0" -> 0 [] c = "1" -> 1 [] c = "2" -> 2 [] c = "3" -> 3
    [] c = "4" -> 4 [] c = "5" -> 5 [] c = "6" -> 6 [] c = "7" -> 7
    [] c = "8" -> 8 [] c = "9" -> 9 [] OTHER -> NULL

\* the longest prefix of decimal digits, as <<number>>, or NaN when there is none
RECURSIVE parseDigits(_, _, _)
parseDigits(s, acc, any) ==
  IF s # <<>> /\ DigitOf(Head(s)) # NULL
  THEN parseDigits(Tail(s), 10 * acc + DigitOf(Head(s)), TRUE)
  ELSE IF any THEN <<acc>> ELSE NaN

\* parseInt(cell): leading blanks skipped, optional sign, digits, rest ignored
parseInt(s) ==
  LET t == trimStart(s) IN
  IF t # <<>> /\ Head(t) = "-"
  THEN LET r == parseDigits(Tail(t), 0, FALSE) IN
       IF r = NaN THEN NaN ELSE <<0 - r[1]>>
  ELSE parseDigits(t, 0, FALSE)

\* parseFloat(cell): the cells of the model hold whole numbers, on which
\* parseFloat and parseInt agree
parseFloat(s) == parseInt(s)

\* parseFloat(cell) || fallback
NumOr(r, fallback) == IF r = NaN \/ r = <<0>> THEN fallback ELSE r[1]

DigitChars == <<"0", "1", "2", "3", "4", "5", "6", "7", "8", "9">>

\* Number.prototype.toString of a whole number >= 0
RECURSIVE toString(_)
toString(n) ==
  IF n < 10 THEN <<DigitChars[n + 1]>>
  ELSE Append(toString(n \div 10), DigitChars[(n % 10) + 1])

-----------------------------------------------------------------------------
(* config.js: scoring table, weights, reference prices *)

\* vsRef is a ratio; the ranges of bajo_mercado are held in hundredths
RefDen == 100

SCORING_RULES ==
  [ terraza     |-> [type |-> "boolean", bonus |-> 10, penaltyMissing |-> 5],
    balcon      |-> [type |-> "boolean", bonus |-> 10, penaltyMissing |-> 5],
    patio       |-> [type |-> "boolean", bonus |-> 10, penaltyMissing |-> 5],
    luminosidad |-> [type |-> "boolean", bonus |-> 10, penaltyMissing |-> 5],
    cochera     |-> [type |-> "numeric", bonus |-> 10, penaltyMissing |-> 5],
    frente      |-> [type |-> "disposicion", bonus |-> 10, penaltyMissing |-> 5],
    ambientes   |-> [type |-> "threshold",
                     thresholds |-> << [min |-> 4, score |-> 8],
                                       [min |-> 3, score |-> 4] >>,
                     penaltyMissing |-> 3],
    banos       |-> [type |-> "threshold",
                     thresholds |-> << [min |-> 2, score |-> 6] >>,
                     penaltyMissing |-> 3],
    antiguedad  |-> [type |-> "range",
                     ranges |-> << [max |-> 0, score |-> 10],
                                   [max |-> 15, score |-> 6],
                                   [max |-> 30, score |-> 3],
                                   [max |-> 50, score |-> 0],
                                   [min |-> 51, score |-> -3] >>,
                     penaltyMissing |-> 3],
    expensas    |-> [type |-> "range",
                     ranges |-> << [max |-> 0, score |-> 8],
                                   [max |-> 80000, score |-> 5],
                                   [max |-> 150000, score |-> 2],
                                   [max |-> 250000, score |-> 0],
                                   [min |-> 250001, score |-> -4] >>,
                     penaltyMissing |-> 2],
    m2          |-> [type |-> "threshold",
                     thresholds |-> << [min |-> 70, score |-> 4],
                                       [min |-> 50, score |-> 2],
                                       [min |-> 40, score |-> 1] >>,
                     penaltyMissing |-> 3],
    bajo_mercado |-> [type |-> "vsRef",
                      ranges |-> << [max |-> -15, score |-> 15],
                                    [max |-> -5, score |-> 8],
                                    [max |-> 0, score |-> 3],
                                    [min |-> 15, score |-> -5] >>] ]

DEFAULT_WEIGHTS ==
  [ bajo_mercado |-> [weight |-> 7, enabled |-> TRUE],
    m2           |-> [weight |-> 5, enabled |-> TRUE],
    ambientes    |-> [weight |-> 3, enabled |-> TRUE],
    banos        |-> [weight |-> 2, enabled |-> TRUE],
    antiguedad   |-> [weight |-> 3, enabled |-> TRUE],
    expensas     |-> [weight |-> 2, enabled |-> TRUE],
    terraza      |-> [weight |-> 5, enabled |-> TRUE],
    balcon       |-> [weight |-> 3, enabled |-> TRUE],
    patio        |-> [weight |-> 5, enabled |-> TRUE],
    cochera      |-> [weight |-> 4, enabled |-> TRUE],
    luminosidad  |-> [weight |-> 4, enabled |-> TRUE],
    frente       |-> [weight |-> 3, enabled |-> TRUE] ]

DEFAULT_CONDITIONS ==
  [activo |-> TRUE, apto_credito |-> TRUE, ok_presupuesto |-> TRUE]

DEFAULT_REF_M2 ==
  ("Almagro" :> 2000) @@ ("Boedo" :> 1876) @@ ("Caballito" :> 2357) @@
  ("Flores" :> 1953) @@ ("Floresta" :> 1683) @@ ("Liniers" :> 1857) @@
  ("Mataderos" :> 1629) @@ ("Monte Castro" :> 1854) @@
  ("Parque Avellaneda" :> 1750) @@ ("Parque Chacabuco" :> 1951) @@
  ("Paternal" :> 1897) @@ ("Villa Crespo" :> 2150) @@
  ("Villa del Parque" :> 2063) @@ ("Villa Devoto" :> 2348) @@
  ("Villa Luro" :> 1785) @@ ("Villa Santa Rita" :> 1750) @@
  ("Vélez Sarsfield" :> 1663)

-----------------------------------------------------------------------------
(* utils.js: unified scoring *)

\* A plausible slip: a value that is absent costs nothing
missing_free(rule, peso) == [score |-> 0, status |-> "missing"]

\* the penalty of an attribute that is enabled and has no usable value
missing(rule, peso) == [score |-> (0 - rule.penaltyMissing) * peso, status |-> "missing"]

\* for (const t of rule.thresholds) if (num >= t.min) return ...
RECURSIVE scoreThreshold(_, _, _)
scoreThreshold(thresholds, num, peso) ==
  IF thresholds = <<>> THEN [score |-> 0, status |-> "no"]
  ELSE LET t == Head(thresholds) IN
       IF num >= t.min
       THEN [score |-> t.score * peso, status |-> IF t.score > 3 THEN "si" ELSE "ok"]
       ELSE scoreThreshold(Tail(thresholds), num, peso)

\* for (const r of rule.ranges) if (r.max ... ) return ...; if (r.min ...) return ...
RECURSIVE scoreRange(_, _, _)
scoreRange(ranges, num, peso) ==
  IF ranges = <<>> THEN [score |-> 0, status |-> "ok"]
  ELSE LET r == Head(ranges) IN
       IF "max" \in DOMAIN r /\ num <= r.max
       THEN [score |-> r.score * peso, status |-> IF r.score > 0 THEN "si" ELSE "no"]
       ELSE IF "min" \in DOMAIN r /\ num >= r.min
       THEN [score |-> r.score * peso, status |-> "no"]
       ELSE scoreRange(Tail(ranges), num, peso)

scoreAttribute(key, valor, peso) ==
  IF peso <= 0 THEN [score |-> 0, status |-> "disabled"]
  ELSE IF key \notin DOMAIN SCORING_RULES THEN [score |-> 0, status |-> "unknown"]
  ELSE
    LET rule   == SCORING_RULES[key]
        v      == trim(toLowerCase(valor))
        num    == parseInt(valor)
        hasNum == num # NaN
    IN CASE rule.type = "boolean" ->
              IF v = <<"s", "i">> \/ v = <<"s", "í">>
              THEN [score |-> rule.bonus * peso, status |-> "si"]
              ELSE IF v = <<"n", "o">> THEN [score |-> 0, status |-> "no"]
              ELSE missing(rule, peso)
         [] rule.type = "numeric" ->
              IF hasNum
              THEN IF num[1] > 0 THEN [score |-> rule.bonus * peso, status |-> "si"]
                   ELSE [score |-> 0, status |-> "no"]
              ELSE missing(rule, peso)
         [] rule.type = "disposicion" ->
              IF v = <<"f", "r", "e", "n", "t", "e">>
              THEN [score |-> rule.bonus * peso, status |-> "si"]
              ELSE IF v \in { <<"c", "o", "n", "t", "r", "a", "f", "r", "e", "n", "t", "e">>,
                              <<"i", "n", "t", "e", "r", "n", "o">>,
                              <<"l", "a", "t", "e", "r", "a", "l">> }
              THEN [score |-> 0, status |-> "no"]
              ELSE missing(rule, peso)
         [] rule.type = "threshold" ->
              IF hasNum /\ num[1] > 0
              THEN scoreThreshold(rule.thresholds, num[1], peso)
              ELSE missing(rule, peso)
         [] rule.type = "range" ->
              IF hasNum THEN scoreRange(rule.ranges, num[1], peso)
              ELSE missing(rule, peso)
         [] rule.type = "vsRef" -> [score |-> 0, status |-> "special"]
         [] OTHER -> [score |-> 0, status |-> "unknown"]

\* vsRef is <<num, den>> with den > 0, or <<>> for null
RECURSIVE scoreVsRefRanges(_, _, _)
scoreVsRefRanges(ranges, vsRef, peso) ==
  IF ranges = <<>> THEN 0
  ELSE LET r == Head(ranges) IN
       IF "max" \in DOMAIN r /\ RefDen * vsRef[1] <= r.max * vsRef[2]
       THEN r.score * peso
       ELSE IF "min" \in DOMAIN r /\ RefDen * vsRef[1] >= r.min * vsRef[2]
       THEN r.score * peso
       ELSE scoreVsRefRanges(Tail(ranges), vsRef, peso)

\* A plausible slip: every non-null variance scored in the first band
scoreVsRef_primera(vsRef, peso) ==
  IF peso <= 0 \/ vsRef = <<>> THEN 0
  ELSE Head(SCORING_RULES.bajo_mercado.ranges).score * peso

scoreVsRef(vsRef, peso) ==
  IF peso <= 0 \/ vsRef = <<>> THEN 0
  ELSE scoreVsRefRanges(SCORING_RULES.bajo_mercado.ranges, vsRef, peso)

\* A plausible slip: the direct sale read off an empty field
esVentaDirecta_sinValor(inmobiliaria) == trim(inmobiliaria) = <<>>

\* A plausible slip: the direct sale never recognised
esVentaDirecta_nunca(inmobiliaria) == FALSE

\* venta directa: no agency commission
esVentaDirecta(inmobiliaria) ==
  LET text == toLowerCase(inmobiliaria) IN
     \/ includes(text, <<"d", "i", "r", "e", "c", "t">>)
     \/ includes(text, <<"d", "u", "e", "ñ", "o">>)
     \/ includes(text, <<"p", "a", "r", "t", "i", "c", "u", "l", "a", "r">>)

-----------------------------------------------------------------------------
(* utils.js: calculateProperty *)

\* if / else-if chain that determines the tier and the base score
tierBase(tieneLink, esActivo, esAptoCredito, noSabemosCredito, noAptoCredito, dentroPresupuesto) ==
  IF ~tieneLink \/ ~esActivo THEN [tier |-> 5, score |-> 0]
  ELSE IF esAptoCredito /\ dentroPresupuesto THEN [tier |-> 1, score |-> 100]
  ELSE IF esAptoCredito /\ ~dentroPresupuesto THEN [tier |-> 2, score |-> 80]
  ELSE IF noSabemosCredito THEN [tier |-> 3, score |-> 50]
  ELSE IF noAptoCredito THEN [tier |-> 4, score |-> 25]
  ELSE [tier |-> 4, score |-> 0]

\* A plausible slip: the regrouping applied without the tier 1..4 guard
ajusteCredito_sinGuarda(ts, dentroPresupuesto) ==
  IF ~CONDITIONS.apto_credito
  THEN IF dentroPresupuesto THEN [tier |-> 1, score |-> 100]
       ELSE [tier |-> 2, score |-> 80]
  ELSE ts

\* if (C.apto_credito && !C.apto_credito.enabled && tier >= 1 && tier <= 4)
ajusteCredito(ts, dentroPresupuesto) ==
  IF ~CONDITIONS.apto_credito /\ ts.tier >= 1 /\ ts.tier <= 4
  THEN IF dentroPresupuesto THEN [tier |-> 1, score |-> 100]
       ELSE [tier |-> 2, score |-> 80]
  ELSE ts

\* A plausible slip: unknown credit regrouped with credit = no
ajustePresupuesto_soloSi(ts, esAptoCredito, noSabemosCredito) ==
  IF ~CONDITIONS.ok_presupuesto /\ ts.tier >= 1 /\ ts.tier <= 4
  THEN IF esAptoCredito THEN [tier |-> 1, score |-> 100]
       ELSE [tier |-> 3, score |-> 50]
  ELSE ts

\* if (C.ok_presupuesto && !C.ok_presupuesto.enabled && tier >= 1 && tier <= 4)
ajustePresupuesto(ts, esAptoCredito, noSabemosCredito) ==
  IF ~CONDITIONS.ok_presupuesto /\ ts.tier >= 1 /\ ts.tier <= 4
  THEN IF esAptoCredito THEN [tier |-> 1, score |-> 100]
       ELSE IF noSabemosCredito THEN [tier |-> 2, score |-> 80]
       ELSE [tier |-> 3, score |-> 50]
  ELSE ts

\* const getWeight = (key) => WEIGHTS[key]?.enabled ? WEIGHTS[key].weight : 0
getWeight(key) ==
  IF key \in DOMAIN WEIGHTS /\ WEIGHTS[key].enabled THEN WEIGHTS[key].weight ELSE 0

\* attrMapping: scoring key -> field of the row
attrMapping(row) ==
  [ ambientes   |-> row.amb,
    banos       |-> row.banos,
    antiguedad  |-> row.antiguedad,
    expensas    |-> row.expensas,
    terraza     |-> row.terraza,
    balcon      |-> row.balcon,
    cochera     |-> row.cocheras,
    luminosidad |-> row.luminosidad,
    frente      |-> row.disposicion ]

RECURSIVE SumOver(_, _)
SumOver(f, S) ==
  IF S = {} THEN 0
  ELSE LET k == CHOOSE x \in S : TRUE IN f[k] + SumOver(f, S \ {k})

\* A plausible slip: no usable reference read as a variance of zero
vsRef_cero(pm2, ref) ==
  IF pm2 > 0 /\ ref > 0 THEN <<pm2 - ref, ref>> ELSE <<0, 1>>

\* _preciom2: m2 > 0 ? Math.round(precio / m2) : 0
preciom2(precio, m2) == IF m2 > 0 THEN Round(precio, m2) ELSE 0

\* _ref: REF_M2[barrio] || 0
refDe(barrio) == IF barrio \in DOMAIN REF_M2 THEN REF_M2[barrio] ELSE 0

\* _vsRef: the ratio (preciom2 - ref) / ref as <<numerator, denominator>>, or
\* <<>> for null
vsRef(pm2, ref) ==
  IF pm2 > 0 /\ ref > 0 THEN <<pm2 - ref, ref>> ELSE <<>>

calculateProperty(row) ==
  LET precio     == NumOr(parseFloat(row.precio), 0)
      m2         == NumOr(parseFloat(row.m2_cub), 0)
      tieneInmob == ~esVentaDirecta(row.inmobiliaria)
      c          == calculateCosts(precio, tieneInmob, NULL, OrElse(CONFIG.NEGOCIACION, 0))
      pm2        == preciom2(precio, m2)
      ref        == refDe(row.barrio)
      vr         == vsRef(pm2, ref)
      activo     == toLowerCase(row.activo)
      aptoCredito == toLowerCase(row.apto_credito)
      esActivo   == activo = <<"s", "i">>
      esAptoCredito    == aptoCredito = <<"s", "i">>
      noSabemosCredito == aptoCredito = <<>> \/ aptoCredito = <<"?">>
      noAptoCredito    == aptoCredito = <<"n", "o">>
      dentroPresupuesto == c.ok \/ precio = 0
      tieneLink  == row.link # <<>>
      t0 == tierBase(tieneLink, esActivo, esAptoCredito, noSabemosCredito,
                     noAptoCredito, dentroPresupuesto)
      t1 == ajusteCredito(t0, dentroPresupuesto)
      t2 == ajustePresupuesto(t1, esAptoCredito, noSabemosCredito)
      m2Score == scoreAttribute("m2", IF m2 > 0 THEN toString(m2) ELSE <<>>,
                                getWeight("m2"))
      mapping == attrMapping(row)
      result  == [key \in DOMAIN mapping |->
                    scoreAttribute(key, mapping[key], getWeight(key))]
      attrScores == [key \in DOMAIN mapping \cup {"m2"} |->
                       IF key = "m2" THEN m2Score.status ELSE result[key].status]
  IN [ _precio |-> precio, _precioNeg |-> c.precio, _m2 |-> m2,
       _tieneInmob |-> tieneInmob,
       _preciom2 |-> pm2, _ref |-> ref, _vsRef |-> vr,
       _tu10 |-> c.tu10, _escr |-> c.escr, _sell |-> c.sell, _reg |-> c.reg,
       _inmob |-> c.inmob, _hip |-> c.hip, _cert |-> c.cert,
       _total |-> c.total, _ok |-> c.ok, _dif |-> c.dif,
       _attrScores |-> attrScores,
       _missingCount |-> Cardinality({key \in DOMAIN attrScores :
                                        attrScores[key] = "missing"}),
       _score |-> t2.score + scoreVsRef(vr, getWeight("bajo_mercado"))
                   + m2Score.score
                   + SumOver([key \in DOMAIN mapping |-> result[key].score],
                             DOMAIN mapping),
       _tier |-> t2.tier ]

-----------------------------------------------------------------------------
(* Inputs of the cost calculator *)

\* Listed prices, USD
Precios == {0, 94000, 105000, 120000, 140000, 140001, 165000}
\* FX overrides: none, and rates of the modal's slider (900..2000 step 10)
Dolares == {NULL, 900, 1110, 2000}
\* Negotiation in half percents: none, 0.5 %, 15 %
Negociaciones == {0, 1, 30}
\* Values the user may enter in the configuration panel
ConfigInputs ==
  { <<"PRESUPUESTO", 35000>>, <<"PRESUPUESTO", 25000>>,
    <<"SELLOS_EXENTO", 140000>>, <<"SELLOS_EXENTO", 120000>> }

NoCall == <<>>

\* config.js: the initial value of state
InitialState ==
  [ rawData |-> <<>>, dataHash |-> <<>>, loading |-> FALSE, error |-> <<>>,
    filterOk |-> "todos", sortBy |-> "score", sortDir |-> "desc",
    autoRefreshEnabled |-> CONFIG.AUTO_REFRESH > 0, selectedProperty |-> NULL,
    wasAutoRefreshing |-> FALSE, negotiationPct |-> 0, loadingDolar |-> FALSE ]

\* the module-level state the engine does not read
InitBrowser ==
  /\ autoRefreshInterval = NULL
  /\ timers = {}
  /\ hidden = FALSE
  /\ enVuelo = <<>>
  /\ compraState = [propertyKey |-> NULL, senaUSD |-> 0]
  /\ nube = <<>>
  /\ ultimoCambio = <<>>

InitBase ==
  /\ CONFIG = DEFAULT_CONFIG
  /\ state = InitialState
  /\ InitBrowser
  /\ CONDITIONS = DEFAULT_CONDITIONS
  /\ WEIGHTS = DEFAULT_WEIGHTS
  /\ REF_M2 = DEFAULT_REF_M2
  /\ casita_weights = <<>>
  /\ dolarEstimado = NULL
  /\ p = <<>>
  /\ costs = NoCall
  /\ quita = NoCall
  /\ attr = NoCall
  /\ calls = <<>>

\* A call of calculateCosts, as the detail modal and what-if simulation make it
CalculateCosts ==
  /\ \E precio \in Precios, tieneInmob \in BOOLEAN, dolar \in Dolares,
        negociacionPct \in Negociaciones :
       costs' = <<[ args |-> [precio |-> precio, tieneInmob |-> tieneInmob,
                              dolar |-> dolar, negociacionPct |-> negociacionPct],
                    res  |-> calculateCosts(precio, tieneInmob, dolar, negociacionPct) ]>>
  /\ UNCHANGED <<CONFIG, CONDITIONS, WEIGHTS, REF_M2, dolarEstimado, p, quita, attr, calls, casita_weights, state, autoRefreshInterval, timers, hidden, enVuelo, compraState, nube, ultimoCambio>>

\* updateConfig(key, value) followed by render(): the inputs of the General and
\* Gastos tabs that the cost calculator reads
updateConfig ==
  /\ \E kv \in ConfigInputs :
       /\ CONFIG[kv[1]] # kv[2]
       /\ CONFIG' = [CONFIG EXCEPT ![kv[1]] = kv[2]]
  /\ UNCHANGED <<CONDITIONS, WEIGHTS, REF_M2, dolarEstimado, p, attr, calls, casita_weights, state, autoRefreshInterval, timers, hidden, enVuelo, compraState, nube, ultimoCambio>>
  /\ RerenderCosts
  /\ RerenderQuita

NextCosts == CalculateCosts \/ updateConfig

SpecCosts == InitBase /\ [][NextCosts]_vars

-----------------------------------------------------------------------------
(* Properties of the cost calculator *)

\* r = Math.round(n / d), stated by its defining inequality r <= n/d + 1/2 < r + 1
IsRound(r, n, d) == 2 * d * r <= 2 * n + d /\ 2 * n + d < 2 * d * r + 2 * d

\* The FX rate a call uses: the override when one is passed, else the base rate
FxOf(a) == IF a.dolar = NULL THEN CONFIG.DOLAR_BASE ELSE a.dolar

\* C4: calculateCosts returns effectivePrice = round(price x (1 - n/100)),
\* creditUSD = round(creditPrincipalLocal / fxRate), downPayment = max(effective
\* price - creditUSD, 10 % of effectivePrice), notary / registry / mortgage tax =
\* round(effectivePrice x rate), agency = round(effectivePrice x agencyRate) when
\* the fee applies and 0 otherwise, total = the sum of all components plus the
\* certificate fee, ok = (total <= budget), difference = budget - total, with
\* half-up rounding: 105000 x 0.0242 = 2541; 126,000,000 / 1450 = 86897 and then
\* price 94000 gives downPayment 9400.
C4_CalculateCostsFormula ==
  costs # NoCall =>
    LET a == costs[1].args
        r == costs[1].res
        ep == r.precio
    IN  /\ IsRound(ep, a.precio * (PctDen - a.negociacionPct), PctDen)
        /\ IsRound(r.creditoUSD, CONFIG.CREDITO_ARS, FxOf(a))
        /\ r.tu10 >= Decimos * (ep - r.creditoUSD)
        /\ r.tu10 >= ep
        /\ r.tu10 \in {Decimos * (ep - r.creditoUSD), ep}
        /\ IsRound(r.escr, ep * CONFIG.ESCRIBANO, RateDen)
        /\ IsRound(r.reg, ep * CONFIG.REGISTRALES, RateDen)
        /\ IsRound(r.hip, ep * CONFIG.HIPOTECA, RateDen)
        /\ IF a.tieneInmob THEN IsRound(r.inmob, ep * CONFIG.INMOB, RateDen)
                           ELSE r.inmob = 0
        /\ r.cert = CONFIG.CERTIFICADOS
        /\ r.total = r.tu10
                     + Decimos * (r.escr + r.sell + r.reg + r.inmob + r.hip + r.cert)
        /\ r.ok = (r.total <= Decimos * CONFIG.PRESUPUESTO)
        /\ r.dif = Decimos * CONFIG.PRESUPUESTO - r.total
        /\ (ep = 105000 /\ CONFIG.ESCRIBANO = 242) => r.escr = 2541
        /\ (CONFIG.CREDITO_ARS = 126000000 /\ FxOf(a) = 1450) =>
             /\ r.creditoUSD = 86897
             /\ ep = 94000 => r.tu10 = Decimos * 9400

\* C4 witness: the calculator ran on price 94000 at the base rate, no negotiation
C4_Witness ==
  /\ costs # NoCall
  /\ costs[1].args = [precio |-> 94000, tieneInmob |-> TRUE, dolar |-> NULL,
                      negociacionPct |-> 0]
  /\ costs[1].res.tu10 = Decimos * 9400
  /\ costs[1].res.escr = 2275

\* C5: the stamp tax is exactly 0 when the effective price is at or below the
\* exemption threshold (boundary inclusive) and round(effectivePrice x stampRate)
\* above it; with threshold 140000 and rate 0.0175, 140000 gives 0 and 140001
\* gives a positive stamp tax.
C5_StampExemption ==
  costs # NoCall =>
    LET r == costs[1].res
    IN  /\ r.precio <= CONFIG.SELLOS_EXENTO => r.sell = 0
        /\ r.precio > CONFIG.SELLOS_EXENTO =>
             IsRound(r.sell, r.precio * CONFIG.SELLOS, RateDen)
        /\ (CONFIG.SELLOS_EXENTO = 140000 /\ CONFIG.SELLOS = 175) =>
             /\ r.precio = 140000 => r.sell = 0
             /\ r.precio = 140001 => r.sell > 0

\* C5 witness: a call whose effective price is exactly the threshold
C5_Witness ==
  /\ costs # NoCall
  /\ CONFIG.SELLOS_EXENTO = 140000
  /\ costs[1].res.precio = 140000
  /\ costs[1].res.sell = 0

\* C6: for a fixed price, agency flag, fee schedule and FX rate, a larger
\* negotiation percentage within 0..100 never gives a larger total: for all
\* whole percentages n1 <= n2, total(n2) <= total(n1); and the call that was
\* made (at any half percent) lies between its two neighbouring whole percents.
C6_NegotiationMonotone ==
  costs # NoCall =>
    LET a == costs[1].args
        total == [n \in 0..PctMax |->
                    calculateCosts(a.precio, a.tieneInmob, a.dolar, PctUnit * n).total]
        lo == a.negociacionPct \div PctUnit
        hi == (a.negociacionPct + PctUnit - 1) \div PctUnit
    IN  /\ total[hi] <= costs[1].res.total
        /\ costs[1].res.total <= total[lo]
        /\ \A n1 \in 0..PctMax : \A n2 \in n1..PctMax : total[n2] <= total[n1]

\* C6 witness: a negotiated call that took the price across the stamp threshold
C6_Witness ==
  /\ costs # NoCall
  /\ costs[1].args.negociacionPct > 0
  /\ costs[1].args.precio > CONFIG.SELLOS_EXENTO
  /\ costs[1].res.precio <= CONFIG.SELLOS_EXENTO
  /\ costs[1].res.precio > 0

\* FX rates of the simulation slider: FxMin..FxMax
FxMin == 900
FxMax == 2000
\* The rates compared: FxSamples + 1 of them, evenly spread from FxMin
FxSamples == 55
FxAt(i) == FxMin + i * ((FxMax - FxMin) \div FxSamples)

\* C7: for a fixed price and negotiation, a larger FX rate passed to the
\* calculator never gives a larger creditUSD nor a smaller downPayment: for all
\* rates fx1 <= fx2, creditUSD(fx2) <= creditUSD(fx1) and downPayment(fx2) >=
\* downPayment(fx1).
C7_FxMonotone ==
  costs # NoCall =>
    LET a == costs[1].args
        res == [i \in 0..FxSamples |->
                  calculateCosts(a.precio, a.tieneInmob, FxAt(i), a.negociacionPct)]
    IN  /\ \A i \in 0..FxSamples : a.dolar = FxAt(i) => res[i] = costs[1].res
        /\ \A i1 \in 0..FxSamples : \A i2 \in i1..FxSamples :
             /\ res[i2].creditoUSD <= res[i1].creditoUSD
             /\ res[i2].tu10 >= res[i1].tu10

\* C7 witness: a call at the top rate whose down payment is the credit gap and
\* is larger than at the base rate
C7_Witness ==
  /\ costs # NoCall
  /\ costs[1].args.dolar = FxAt(FxSamples)
  /\ costs[1].res.tu10 = Decimos * (costs[1].res.precio - costs[1].res.creditoUSD)
  /\ costs[1].res.creditoUSD < getCreditoUSD(NULL)

-----------------------------------------------------------------------------
(* Calls of the calculator interleaved with configuration changes *)

\* Longest history of calculateCosts calls that is kept
MaxCalls == 3

\* Call inputs and handler inputs of the interleaving
PreciosLog == {120000}
DolaresLog == {NULL, 900}
VentasBNA == {1200, 1450}
ConfigInputsLog == { <<"PRESUPUESTO", 35000>>, <<"PRESUPUESTO", 25000>> }

\* calculateCosts called by a render; the call is logged with the CONFIG it saw
CalculateCostsLogged ==
  /\ Len(calls) < MaxCalls
  /\ \E precio \in PreciosLog, dolar \in DolaresLog :
       LET a == [precio |-> precio, tieneInmob |-> TRUE, dolar |-> dolar,
                 negociacionPct |-> 0]
       IN  /\ costs' = <<[args |-> a, res |-> CostsOf(a)]>>
           /\ calls' = Append(calls, [args |-> a, config |-> CONFIG, res |-> CostsOf(a)])
  /\ UNCHANGED <<CONFIG, CONDITIONS, WEIGHTS, REF_M2, dolarEstimado, p, quita, attr, casita_weights, state, autoRefreshInterval, timers, hidden, enVuelo, compraState, nube, ultimoCambio>>

\* updateConfig(key, value) between two calls
updateConfigLog ==
  /\ \E kv \in ConfigInputsLog :
       /\ CONFIG[kv[1]] # kv[2]
       /\ CONFIG' = [CONFIG EXCEPT ![kv[1]] = kv[2]]
  /\ UNCHANGED <<CONDITIONS, WEIGHTS, REF_M2, dolarEstimado, p, attr, calls, casita_weights, state, autoRefreshInterval, timers, hidden, enVuelo, compraState, nube, ultimoCambio>>
  /\ RerenderCosts
  /\ RerenderQuita

\* api.js cargarDolarHoy / app.js init: the live rate arrives and overwrites
\* state.dolarEstimado and CONFIG.DOLAR_BASE, then render()
cargarDolarHoy ==
  /\ \E venta \in VentasBNA :
       /\ dolarEstimado' = venta
       /\ CONFIG' = [CONFIG EXCEPT !.DOLAR_BASE = venta]
  /\ UNCHANGED <<CONDITIONS, WEIGHTS, REF_M2, p, attr, calls, casita_weights, state, autoRefreshInterval, timers, hidden, enVuelo, compraState, nube, ultimoCambio>>
  /\ RerenderCosts
  /\ RerenderQuita

NextPurity == CalculateCostsLogged \/ updateConfigLog \/ cargarDolarHoy

SpecPurity == InitBase /\ [][NextPurity]_vars

\* C8 as stated: two calls of calculateCosts with identical call inputs return
\* identical cost breakdowns, whatever ran between them.
C8_PureInCallInputs ==
  \A i, j \in 1..Len(calls) :
    calls[i].args = calls[j].args => calls[i].res = calls[j].res

\* C8 amended: two calls with identical call inputs made under identical CONFIG
\* values return identical cost breakdowns, whatever ran between them.
C8_PureInCallInputsAndConfig ==
  \A i, j \in 1..Len(calls) :
    (calls[i].args = calls[j].args /\ calls[i].config = calls[j].config)
      => calls[i].res = calls[j].res

\* C8 witness: the same call made twice under the same CONFIG, with a call under
\* a different CONFIG in between and a live rate loaded
C8_Witness ==
  /\ Len(calls) = 3
  /\ calls[1].args = calls[3].args
  /\ calls[1].config = calls[3].config
  /\ calls[2].config # calls[1].config
  /\ calls[1].res = calls[3].res
  /\ dolarEstimado # NULL

-----------------------------------------------------------------------------
(* The discount solver and its round trip through the calculator *)

PreciosQuita == {105000, 120000, 140394, 165000}
DolaresQuita == {NULL, 900, 1110, 2000}
ConfigInputsQuita ==
  { <<"PRESUPUESTO", 35000>>, <<"PRESUPUESTO", 25000>>, <<"PRESUPUESTO", 22250>>,
    <<"PRESUPUESTO", 70000>> }

CalculateQuitaNecesaria ==
  /\ \E precio \in PreciosQuita, tieneInmob \in BOOLEAN, dolar \in DolaresQuita :
       LET a == [precio |-> precio, tieneInmob |-> tieneInmob, dolar |-> dolar]
       IN  quita' = <<[args |-> a, res |-> QuitaOf(a)]>>
  /\ costs' = NoCall
  /\ UNCHANGED <<CONFIG, CONDITIONS, WEIGHTS, REF_M2, dolarEstimado, p, attr, calls, casita_weights, state, autoRefreshInterval, timers, hidden, enVuelo, compraState, nube, ultimoCambio>>

\* The round trip: the solver's precioTarget fed back into calculateCosts with
\* no negotiation, the same FX rate and the same agency flag
SimularPrecioTarget ==
  /\ quita # NoCall
  /\ LET a == [precio |-> quita[1].res.precioTarget,
               tieneInmob |-> quita[1].args.tieneInmob,
               dolar |-> quita[1].args.dolar, negociacionPct |-> 0]
     IN  costs' = <<[args |-> a, res |-> CostsOf(a)]>>
  /\ UNCHANGED <<CONFIG, CONDITIONS, WEIGHTS, REF_M2, dolarEstimado, p, quita, attr, calls, casita_weights, state, autoRefreshInterval, timers, hidden, enVuelo, compraState, nube, ultimoCambio>>

\* updateConfig between solver calls; render() reruns the solver and, when a
\* round trip is on display, reruns it from the new precioTarget
RerenderRoundTrip ==
  IF costs = NoCall THEN costs' = NoCall
  ELSE \E a \in {[precio |-> quita'[1].res.precioTarget,
                   tieneInmob |-> quita[1].args.tieneInmob,
                   dolar |-> quita[1].args.dolar, negociacionPct |-> 0]} :
         costs' = <<[args |-> a, res |-> CostsOf(a)']>>

updateConfigQuita ==
  /\ \E kv \in ConfigInputsQuita :
       /\ CONFIG[kv[1]] # kv[2]
       /\ CONFIG' = [CONFIG EXCEPT ![kv[1]] = kv[2]]
  /\ UNCHANGED <<CONDITIONS, WEIGHTS, REF_M2, dolarEstimado, p, attr, calls, casita_weights, state, autoRefreshInterval, timers, hidden, enVuelo, compraState, nube, ultimoCambio>>
  /\ RerenderQuita
  /\ RerenderRoundTrip

NextQuita == CalculateQuitaNecesaria \/ SimularPrecioTarget \/ updateConfigQuita

SpecQuita == InitBase /\ [][NextQuita]_vars

\* calculateCosts at price q with the solver's FX rate and agency flag
AtPrice(q) ==
  calculateCosts(q, quita[1].args.tieneInmob, quita[1].args.dolar, 0)

C10_MinimumDiscount ==
  (quita # NoCall /\ quita[1].res.quitaNum > 0) =>
    \A q \in (quita[1].res.precioTarget + 1)..(quita[1].args.precio - 1) :
      ~AtPrice(q).ok

-----------------------------------------------------------------------------
(* Tier classification: rows of the sheet under the condition toggles *)

\* cells, as parseCSV delivers them (trimmed)
Si == <<"s", "i">>
No == <<"n", "o">>
Vacio == <<>>
Frente == <<"f", "r", "e", "n", "t", "e">>
Contrafrente == <<"c", "o", "n", "t", "r", "a", "f", "r", "e", "n", "t", "e">>

Links == { Vacio, <<"h", "t", "t", "p">> }
Activos == { Si, <<"S", "i">>, No, Vacio, <<"s", "í">> }
Creditos == { Si, <<"S", "I">>, No, Vacio, <<"?">>, <<"t", "a", "l", " ", "v", "e", "z">> }
PreciosFila == { Vacio, toString(105000), toString(120000) }

\* a row of the sheet; the columns the tier does not read are those of one listing
Filas ==
  { [ link |-> l, activo |-> a, apto_credito |-> c, precio |-> pr,
      m2_cub |-> toString(60), barrio |-> "Flores",
      inmobiliaria |-> <<"R", "e", "m", "a", "x">>,
      amb |-> toString(3), banos |-> toString(1), antiguedad |-> toString(40),
      expensas |-> Vacio, terraza |-> Si, balcon |-> No, cocheras |-> toString(0),
      luminosidad |-> Vacio, disposicion |-> <<"f", "r", "e", "n", "t", "e">> ] :
    l \in Links, a \in Activos, c \in Creditos, pr \in PreciosFila }

ConfigInputsTier == { <<"PRESUPUESTO", 35000>>, <<"PRESUPUESTO", 25000>> }

\* getProperties() = parseCSV(state.rawData).map(calculateProperty): render()
\* derives the evaluated row from the sheet and the configuration each time,
\* nothing of it is stored
calc == IF p = <<>> THEN NoCall ELSE <<calculateProperty(p[1])>>

\* fetchData(): new sheet contents, then render()
fetchData ==
  /\ \E row \in Filas :
       /\ p # <<row>>
       /\ p' = <<row>>
  /\ UNCHANGED <<CONFIG, CONDITIONS, WEIGHTS, REF_M2, dolarEstimado, costs, quita, attr, calls, casita_weights, state, autoRefreshInterval, timers, hidden, enVuelo, compraState, nube, ultimoCambio>>

\* updateCondition(key, enabled): CONDITIONS[key].enabled = enabled; render()
updateCondition ==
  /\ \E key \in DOMAIN CONDITIONS, enabled \in BOOLEAN :
       /\ CONDITIONS[key] # enabled
       /\ CONDITIONS' = [CONDITIONS EXCEPT ![key] = enabled]
  /\ UNCHANGED <<CONFIG, WEIGHTS, REF_M2, dolarEstimado, p, costs, quita, attr, calls, casita_weights, state, autoRefreshInterval, timers, hidden, enVuelo, compraState, nube, ultimoCambio>>

\* updateConfig('PRESUPUESTO', value); render()
updateConfigTier ==
  /\ \E kv \in ConfigInputsTier :
       /\ CONFIG[kv[1]] # kv[2]
       /\ CONFIG' = [CONFIG EXCEPT ![kv[1]] = kv[2]]
  /\ UNCHANGED <<CONDITIONS, WEIGHTS, REF_M2, dolarEstimado, p, costs, quita, attr, calls, casita_weights, state, autoRefreshInterval, timers, hidden, enVuelo, compraState, nube, ultimoCambio>>

NextTier == fetchData \/ updateCondition \/ updateConfigTier

SpecTier == InitBase /\ [][NextTier]_vars

\* the classes of the claim, read off the raw cells
TieneLink(row) == Len(row.link) > 0
EsActivo(row) == row.activo \in { <<"s", "i">>, <<"S", "i">>, <<"s", "I">>, <<"S", "I">> }
Credito(row) ==
  CASE row.apto_credito \in { <<"s", "i">>, <<"S", "i">>, <<"s", "I">>, <<"S", "I">> } -> "yes"
    [] row.apto_credito \in { <<>>, <<"?">> } -> "unknown"
    [] row.apto_credito \in { <<"n", "o">>, <<"N", "o">>, <<"n", "O">>, <<"N", "O">> } -> "no"
    [] OTHER -> "other"
WithinBudget(c) == c._total <= Decimos * CONFIG.PRESUPUESTO \/ c._precio = 0

\* C1: under every setting of the condition toggles the tier of a row is one
\* of 1..5, and it is 5 exactly when the row has no link or its activo cell
\* is not 'si'; the credit and budget overrides leave tier 5 rows in tier 5
\* and move no other row into it.
C1_TierFiveIffInactive ==
  calc # NoCall =>
    LET row == p[1]
        tier == calc[1]._tier
    IN /\ tier \in 1..5
       /\ tier = 5 <=> (~TieneLink(row) \/ ~EsActivo(row))

\* an inactive row that has a link, with both overrides switched on
C1_Witness ==
  /\ calc # NoCall
  /\ ~CONDITIONS.apto_credito /\ ~CONDITIONS.ok_presupuesto
  /\ TieneLink(p[1]) /\ ~EsActivo(p[1])
  /\ calc[1]._tier = 5

\* C2: the tier is the result of (1) the precedence chain, (2) the regrouping
\* by budget when the credit condition is disabled, (3) the regrouping by
\* credit when the budget condition is disabled, in this order, the two
\* regroupings being applied to tiers 1-4 only.
C2_TierProcedure ==
  calc # NoCall =>
    LET row == p[1]
        credit == Credito(row)
        within == WithinBudget(calc[1])
        step1 == IF ~TieneLink(row) \/ ~EsActivo(row) THEN 5
                 ELSE IF credit = "yes" /\ within THEN 1
                 ELSE IF credit = "yes" THEN 2
                 ELSE IF credit = "unknown" THEN 3
                 ELSE 4
        step2 == IF step1 \in 1..4 /\ ~CONDITIONS.apto_credito
                 THEN (IF within THEN 1 ELSE 2) ELSE step1
        step3 == IF step2 \in 1..4 /\ ~CONDITIONS.ok_presupuesto
                 THEN (IF credit = "yes" THEN 1 ELSE IF credit = "unknown" THEN 2 ELSE 3)
                 ELSE step2
    IN credit \in {"yes", "unknown", "no"} => calc[1]._tier = step3

\* both regroupings applied in sequence: a live row over budget whose credit
\* is unknown goes 3 -> 2 (credit disabled) -> 2 (budget disabled)
C2_Witness ==
  /\ calc # NoCall
  /\ ~CONDITIONS.apto_credito /\ ~CONDITIONS.ok_presupuesto
  /\ TieneLink(p[1]) /\ EsActivo(p[1])
  /\ Credito(p[1]) = "unknown"
  /\ ~WithinBudget(calc[1])
  /\ calc[1]._tier = 2

\* the base score the specification gives each tier
BaseDeTier(t) ==
  CASE t = 1 -> 100 [] t = 2 -> 80 [] t = 3 -> 50 [] t = 4 -> 25 [] OTHER -> 0

\* the contribution of the attributes of a row whose evaluation is e
AporteAtributos(row, e) ==
  LET mapping == attrMapping(row) IN
    scoreAttribute("m2", IF e._m2 > 0 THEN toString(e._m2) ELSE Vacio, getWeight("m2")).score
    + SumOver([key \in DOMAIN mapping |->
                 scoreAttribute(key, mapping[key], getWeight(key)).score],
              DOMAIN mapping)

\* the price-vs-reference contribution
AporteVsRef(e) == scoreVsRef(e._vsRef, getWeight("bajo_mercado"))

\* C11 as stated: the base score, i.e. the score before the attribute and
\* price-vs-reference contributions are added, is 100, 80, 50, 25, 0 for the
\* final tier 1, 2, 3, 4, 5, whatever the credit cell and the toggles.
C11_BaseScoreByTier ==
  calc # NoCall =>
    calc[1]._score - AporteAtributos(p[1], calc[1]) - AporteVsRef(calc[1])
      = BaseDeTier(calc[1]._tier)

\* C12 as stated: the total score is the base score of the final tier plus the
\* attribute contributions plus the price-vs-reference contribution;
\* missingCount is the number of attributes of status 'missing'; an attribute
\* of effective weight 0 has status 'disabled' and contributes 0.
C12_TotalScore ==
  calc # NoCall =>
    LET e == calc[1]
        mapping == attrMapping(p[1])
    IN /\ e._score = BaseDeTier(e._tier) + AporteAtributos(p[1], e) + AporteVsRef(e)
       /\ e._missingCount =
            Cardinality({key \in DOMAIN e._attrScores : e._attrScores[key] = "missing"})
       /\ \A key \in DOMAIN mapping :
            getWeight(key) = 0 =>
              /\ e._attrScores[key] = "disabled"
              /\ scoreAttribute(key, mapping[key], getWeight(key)).score = 0

\* C13 as stated: every key of the weight table other than bajo_mercado that
\* is enabled with weight > 0 has a status in the attribute-status list of the
\* evaluated row.
C13_EveryWeightedKeyEvaluated ==
  calc # NoCall =>
    \A key \in DOMAIN WEIGHTS \ {"bajo_mercado"} :
      getWeight(key) > 0 => key \in DOMAIN calc[1]._attrScores

\* C14 as stated: with the credit condition disabled, rows that differ only
\* in the apto_credito cell get the same tier, under every setting of the
\* other toggles.
C14_CreditDisabledIgnoresCredit ==
  (p # <<>> /\ ~CONDITIONS.apto_credito) =>
    \A c \in Creditos :
      calculateProperty([p[1] EXCEPT !.apto_credito = c])._tier = calc[1]._tier

\* C15 as stated: with the active condition disabled, rows with a link that
\* differ only in the activo cell get the same tier.
C15_ActiveDisabledIgnoresActive ==
  (p # <<>> /\ ~CONDITIONS.activo /\ TieneLink(p[1])) =>
    \A a \in Activos :
      calculateProperty([p[1] EXCEPT !.activo = a])._tier = calc[1]._tier

-----------------------------------------------------------------------------
(* Normalisation and the canonical record: rows under configuration changes *)

Remax == <<"R", "e", "m", "a", "x">>
DuenoDirecto == <<"D", "u", "e", "ñ", "o", " ", "d", "i", "r", "e", "c", "t", "o">>
Particular == <<"P", "A", "R", "T", "I", "C", "U", "L", "A", "R">>
NoNumero == <<"x">>

PreciosRecord == { NoNumero, toString(105000), toString(120000) }
M2Record == { NoNumero, toString(0), toString(70) }
BarriosRecord == { "Parque Avellaneda", "parque avellaneda", "Recoleta" }
InmobiliariasRecord == { Remax, DuenoDirecto, Particular, Vacio }

FilasRecord ==
  { [ link |-> <<"h", "t", "t", "p">>, activo |-> Si, apto_credito |-> Si,
      precio |-> pr, m2_cub |-> m, barrio |-> b, inmobiliaria |-> i,
      amb |-> toString(3), banos |-> toString(1), antiguedad |-> toString(40),
      expensas |-> Vacio, terraza |-> Si, balcon |-> No, cocheras |-> toString(0),
      luminosidad |-> Vacio, disposicion |-> Frente ] :
    pr \in PreciosRecord, m \in M2Record, b \in BarriosRecord,
    i \in InmobiliariasRecord }

\* Negociación base (%), in half percents: 0 and 5 %
ConfigInputsRecord == { <<"NEGOCIACION", 0>>, <<"NEGOCIACION", 10>> }
\* inputs of the reference table editor
RefInputs == { Vacio, toString(0), toString(1500), toString(1750) }
VentasRecord == { 1200 }

fetchDataRecord ==
  /\ \E row \in FilasRecord :
       /\ p # <<row>>
       /\ p' = <<row>>
  /\ UNCHANGED <<CONFIG, CONDITIONS, WEIGHTS, REF_M2, dolarEstimado, costs, quita, attr, calls, casita_weights, state, autoRefreshInterval, timers, hidden, enVuelo, compraState, nube, ultimoCambio>>

updateConfigRecord ==
  /\ \E kv \in ConfigInputsRecord :
       /\ CONFIG[kv[1]] # kv[2]
       /\ CONFIG' = [CONFIG EXCEPT ![kv[1]] = kv[2]]
  /\ UNCHANGED <<CONDITIONS, WEIGHTS, REF_M2, dolarEstimado, p, costs, quita, attr, calls, casita_weights, state, autoRefreshInterval, timers, hidden, enVuelo, compraState, nube, ultimoCambio>>

\* updateRefM2(barrio, value): '' deletes the entry, anything else stores
\* parseInt(value) || 0; saveRefM2; render()
updateRefM2 ==
  /\ \E barrio \in {"Parque Avellaneda"}, value \in RefInputs :
       REF_M2' =
         IF value = Vacio
         THEN [b \in DOMAIN REF_M2 \ {barrio} |-> REF_M2[b]]
         ELSE [b \in DOMAIN REF_M2 \cup {barrio} |->
                 IF b = barrio THEN NumOr(parseInt(value), 0) ELSE REF_M2[b]]
  /\ REF_M2' # REF_M2
  /\ UNCHANGED <<CONFIG, CONDITIONS, WEIGHTS, dolarEstimado, p, costs, quita, attr, calls, casita_weights, state, autoRefreshInterval, timers, hidden, enVuelo, compraState, nube, ultimoCambio>>

\* cargarDolarHoy(): the live rate replaces state.dolarEstimado and
\* CONFIG.DOLAR_BASE; render()
cargarDolarHoyRecord ==
  /\ \E venta \in VentasRecord :
       /\ CONFIG.DOLAR_BASE # venta
       /\ dolarEstimado' = venta
       /\ CONFIG' = [CONFIG EXCEPT !.DOLAR_BASE = venta]
  /\ UNCHANGED <<CONDITIONS, WEIGHTS, REF_M2, p, costs, quita, attr, calls, casita_weights, state, autoRefreshInterval, timers, hidden, enVuelo, compraState, nube, ultimoCambio>>

NextRecord == fetchDataRecord \/ updateConfigRecord \/ updateRefM2 \/ cargarDolarHoyRecord

SpecRecord == InitBase /\ [][NextRecord]_vars

\* what the cells of the rows read as
NumeroDe(cell) ==
  CASE cell = toString(105000) -> 105000
    [] cell = toString(120000) -> 120000
    [] cell = toString(70) -> 70
    [] OTHER -> 0

\* the line items of an evaluated row
Desglose(e) ==
  [ precio |-> e._precioNeg, tu10 |-> e._tu10, escr |-> e._escr, sell |-> e._sell,
    reg |-> e._reg, inmob |-> e._inmob, hip |-> e._hip, cert |-> e._cert,
    total |-> e._total, ok |-> e._ok, dif |-> e._dif ]

DesgloseDe(c) ==
  [ precio |-> c.precio, tu10 |-> c.tu10, escr |-> c.escr, sell |-> c.sell,
    reg |-> c.reg, inmob |-> c.inmob, hip |-> c.hip, cert |-> c.cert,
    total |-> c.total, ok |-> c.ok, dif |-> c.dif ]

\* C16 as stated: the cost breakdown of the evaluated row is the calculator's
\* result for the listed price with negotiation 0 and the base FX rate, for
\* every configuration.
C16_RecordCostsAtZeroNegotiation ==
  calc # NoCall =>
    Desglose(calc[1]) =
      DesgloseDe(calculateCosts(NumeroDe(p[1].precio), p[1].inmobiliaria \notin { DuenoDirecto, Particular },
                                NULL, 0))

\* C16 amended: the cost breakdown of the evaluated row is the calculator's
\* result for the listed price with the configured base negotiation
\* (CONFIG.NEGOCIACION, 0 by default) and the base FX rate, for every
\* configuration; the agency fee applies unless the row is a direct sale.
C16_RecordCostsAtBaseNegotiation ==
  calc # NoCall =>
    Desglose(calc[1]) =
      DesgloseDe(calculateCosts(NumeroDe(p[1].precio), p[1].inmobiliaria \notin { DuenoDirecto, Particular },
                                NULL, CONFIG.NEGOCIACION))

\* a row evaluated under a base negotiation of 5 % after the live rate arrived
C16_Witness ==
  /\ calc # NoCall
  /\ CONFIG.NEGOCIACION = 10
  /\ dolarEstimado # NULL
  /\ calc[1]._precio = 120000
  /\ calc[1]._precioNeg = 114000

\* C17: price and area that do not parse are 0; price per area is
\* round(price / area) for area > 0 and 0 otherwise; the variance is
\* (price per area - reference) / reference exactly when price per area > 0
\* and the reference stored under the exact neighbourhood string is > 0, and
\* null otherwise, null being no variance of zero.
C17_Normalisation ==
  calc # NoCall =>
    LET e == calc[1]
        precio == NumeroDe(p[1].precio)
        m2 == NumeroDe(p[1].m2_cub)
        ref == IF p[1].barrio \in DOMAIN REF_M2 THEN REF_M2[p[1].barrio] ELSE 0
    IN /\ e._precio = precio
       /\ e._m2 = m2
       /\ IF m2 > 0 THEN IsRound(e._preciom2, precio, m2) ELSE e._preciom2 = 0
       /\ IF e._preciom2 > 0 /\ ref > 0
          THEN e._vsRef = <<e._preciom2 - ref, ref>>
          ELSE e._vsRef = <<>>
       /\ e._vsRef # <<>> => Len(e._vsRef) = 2 /\ e._vsRef[2] > 0

\* price and area parse, the neighbourhood is spelled in another case: no
\* reference, null variance
C17_Witness ==
  /\ calc # NoCall
  /\ calc[1]._preciom2 = 1500
  /\ p[1].barrio = "parque avellaneda"
  /\ calc[1]._vsRef = <<>>

\* the listing of the example: 105000 USD, 70 m2, reference 1750
Ejemplo1 ==
  /\ calc # NoCall
  /\ calc[1]._precio = 105000
  /\ calc[1]._m2 = 70
  /\ calc[1]._ref = 1750

\* C18 as stated: the example has price per area 1500 and variance -0.1429 and
\* is scored in the first band of the rule (variance <= -0.15, 15 per unit of
\* weight); the rule is applied once and only to a non-null variance.
C18_ExampleWellBelowMarket ==
  Ejemplo1 =>
    /\ calc[1]._preciom2 = 1500
    /\ IsRound(0 - 1429, 10000 * calc[1]._vsRef[1], calc[1]._vsRef[2])
    /\ AporteVsRef(calc[1]) = 15 * getWeight("bajo_mercado")

\* C18 amended: the example has price per area 1500 and variance -0.1429,
\* which is above -0.15 and at most -0.05: it is scored in the second band
\* (8 per unit of weight).  The rule is applied once per row, and a null
\* variance contributes nothing.
C18_ExampleBelowMarket ==
  /\ Ejemplo1 =>
       /\ calc[1]._preciom2 = 1500
       /\ IsRound(0 - 1429, 10000 * calc[1]._vsRef[1], calc[1]._vsRef[2])
       /\ AporteVsRef(calc[1]) = 8 * getWeight("bajo_mercado")
  /\ calc # NoCall =>
       /\ calc[1]._vsRef = <<>> => AporteVsRef(calc[1]) = 0
       /\ calc[1]._score = BaseDeTier(calc[1]._tier)
                             + AporteAtributos(p[1], calc[1]) + AporteVsRef(calc[1])

C18_Witness ==
  /\ Ejemplo1
  /\ getWeight("bajo_mercado") = 7
  /\ AporteVsRef(calc[1]) = 56

\* the agency line of an evaluated row e when the commission applies
Comision(e) == Round(e._precioNeg * CONFIG.INMOB, RateDen)

\* the total needed of an evaluated row e without the agency line
TotalSinComision(e) ==
  e._tu10 + Decimos * (e._escr + e._sell + e._reg + e._hip + e._cert)

-----------------------------------------------------------------------------
(* The engine's calls and the configuration: frame conditions *)

FilasFrame ==
  { row \in Filas : /\ row.link # Vacio /\ row.activo = Si
                    /\ row.apto_credito \in {Si, Vacio}
                    /\ row.precio = toString(120000) }
NegociacionesFrame == {0, 10}
DolaresFrame == {NULL, 900}

fetchDataFrame ==
  /\ \E row \in FilasFrame :
       /\ p # <<row>>
       /\ p' = <<row>>
  /\ UNCHANGED <<CONFIG, CONDITIONS, WEIGHTS, REF_M2, dolarEstimado, costs, quita, attr, calls, casita_weights, state, autoRefreshInterval, timers, hidden, enVuelo, compraState, nube, ultimoCambio>>

\* A plausible slip: the what-if keeps its negotiation as the new base
calculateCostsCall_guarda ==
  /\ Len(calls) < MaxCalls
  /\ p # <<>>
  /\ \E negociacionPct \in NegociacionesFrame, dolar \in DolaresFrame :
       LET a == [precio |-> calc[1]._precio, tieneInmob |-> calc[1]._tieneInmob,
                 dolar |-> dolar, negociacionPct |-> negociacionPct]
       IN  /\ costs' = <<[args |-> a, res |-> CostsOf(a)]>>
           /\ calls' = Append(calls, [fn |-> "calculateCosts", args |-> a])
           /\ CONFIG' = [CONFIG EXCEPT !.NEGOCIACION = negociacionPct]
  /\ UNCHANGED <<CONDITIONS, WEIGHTS, REF_M2, dolarEstimado, p, quita, attr, casita_weights, state, autoRefreshInterval, timers, hidden, enVuelo, compraState, nube, ultimoCambio>>

\* getProperties(): calculateProperty on the row of the sheet
calculatePropertyCall ==
  /\ Len(calls) < MaxCalls
  /\ p # <<>>
  /\ calls' = Append(calls, [fn |-> "calculateProperty", args |-> p[1]])
  /\ UNCHANGED <<CONFIG, CONDITIONS, WEIGHTS, REF_M2, dolarEstimado, p, costs, quita, attr, casita_weights, state, autoRefreshInterval, timers, hidden, enVuelo, compraState, nube, ultimoCambio>>

\* renderDetailModal: calculateCosts(p._precio, {tieneInmob, dolar, negociacionPct})
calculateCostsCall ==
  /\ Len(calls) < MaxCalls
  /\ p # <<>>
  /\ \E negociacionPct \in NegociacionesFrame, dolar \in DolaresFrame :
       LET a == [precio |-> calc[1]._precio, tieneInmob |-> calc[1]._tieneInmob,
                 dolar |-> dolar, negociacionPct |-> negociacionPct]
       IN  /\ costs' = <<[args |-> a, res |-> CostsOf(a)]>>
           /\ calls' = Append(calls, [fn |-> "calculateCosts", args |-> a])
  /\ UNCHANGED <<CONFIG, CONDITIONS, WEIGHTS, REF_M2, dolarEstimado, p, quita, attr, casita_weights, state, autoRefreshInterval, timers, hidden, enVuelo, compraState, nube, ultimoCambio>>

\* renderDetailModal: calculateQuitaNecesaria(p._precio, tieneInmob, dolarActual)
calculateQuitaNecesariaCall ==
  /\ Len(calls) < MaxCalls
  /\ p # <<>>
  /\ \E dolar \in DolaresFrame :
       LET a == [precio |-> calc[1]._precio, tieneInmob |-> calc[1]._tieneInmob,
                 dolar |-> dolar]
       IN  /\ quita' = <<[args |-> a, res |-> QuitaOf(a)]>>
           /\ calls' = Append(calls, [fn |-> "calculateQuitaNecesaria", args |-> a])
  /\ UNCHANGED <<CONFIG, CONDITIONS, WEIGHTS, REF_M2, dolarEstimado, p, costs, attr, casita_weights, state, autoRefreshInterval, timers, hidden, enVuelo, compraState, nube, ultimoCambio>>

NextFrame ==
  \/ fetchDataFrame
  \/ calculatePropertyCall
  \/ calculateCostsCall
  \/ calculateQuitaNecesariaCall
  \/ updateConfigLog

SpecFrame == InitBase /\ [][NextFrame]_vars

\* C19: a step that is a call of the engine (it lengthens the history of
\* calls) leaves CONFIG, WEIGHTS, CONDITIONS, REF_M2 and the input row as they
\* were, whatever calls and handlers ran before.
C19_EngineLeavesConfiguration ==
  [][Len(calls') > Len(calls) =>
       UNCHANGED <<CONFIG, WEIGHTS, CONDITIONS, REF_M2, p>>]_vars

\* the three kinds of call made one after the other, after a configuration
\* change by a handler
C19_Witness ==
  /\ Len(calls) = 3
  /\ calls[1].fn = "calculateProperty"
  /\ calls[2].fn = "calculateCosts" /\ calls[2].args.negociacionPct > 0
  /\ calls[3].fn = "calculateQuitaNecesaria"
  /\ CONFIG.PRESUPUESTO # DEFAULT_CONFIG.PRESUPUESTO
  /\ CONFIG.NEGOCIACION = DEFAULT_CONFIG.NEGOCIACION

-----------------------------------------------------------------------------
(* The weight table: sliders, switches, reset and the stored copy *)

\* weight slider: 0..PesoMax
PesoMax == 10

\* localStorage holds nothing
NoStored == <<>>

\* saveWeights(weights): { key: { weight, enabled } } for every key
saveWeights(weights) ==
  [k \in DOMAIN weights |->
     [tipo |-> "object", weight |-> weights[k].weight, enabled |-> weights[k].enabled]]

\* loadWeights(): the defaults, overridden key by key by what is stored, in
\* the old format (a number) or the new one (an object); a stored item is
\* [tipo |-> "number", valor |-> n] or [tipo |-> "object", weight, enabled],
\* the fields of an object being optional (??)
loadWeights(saved) ==
  IF saved = NoStored THEN DEFAULT_WEIGHTS
  ELSE [k \in DOMAIN DEFAULT_WEIGHTS |->
          IF k \notin DOMAIN saved THEN DEFAULT_WEIGHTS[k]
          ELSE IF saved[k].tipo = "number"
          THEN [DEFAULT_WEIGHTS[k] EXCEPT !.weight = saved[k].valor]
          ELSE IF saved[k].tipo = "object"
          THEN [weight  |-> IF "weight" \in DOMAIN saved[k] THEN saved[k].weight
                            ELSE DEFAULT_WEIGHTS[k].weight,
                enabled |-> IF "enabled" \in DOMAIN saved[k] THEN saved[k].enabled
                            ELSE TRUE]
          ELSE DEFAULT_WEIGHTS[k]]

\* what the browser may hold under casita_weights when the page loads:
\* nothing, a table in the old format, a table in the new format
Guardados ==
  { NoStored,
    [terraza |-> [tipo |-> "number", valor |-> 7]],
    [terraza |-> [tipo |-> "number", valor |-> 50]],
    [terraza |-> [tipo |-> "object", weight |-> 3, enabled |-> FALSE],
     m2      |-> [tipo |-> "object", enabled |-> TRUE]] }

\* the keys whose slider and switch are operated, and the slider positions
ClavesPeso == {"terraza", "m2"}
ValoresSlider == { toString(0), toString(PesoMax) }

InitWeights ==
  /\ CONFIG = DEFAULT_CONFIG
  /\ state = InitialState
  /\ InitBrowser
  /\ CONDITIONS = DEFAULT_CONDITIONS
  /\ casita_weights \in Guardados
  /\ WEIGHTS = loadWeights(casita_weights)
  /\ REF_M2 = DEFAULT_REF_M2
  /\ dolarEstimado = NULL
  /\ p = <<>>
  /\ costs = NoCall
  /\ quita = NoCall
  /\ attr = NoCall
  /\ calls = <<>>

\* updateWeight(key, value): WEIGHTS[key].weight = parseInt(value); saveWeights; render()
updateWeight ==
  /\ \E key \in ClavesPeso, value \in ValoresSlider :
       WEIGHTS' = [WEIGHTS EXCEPT ![key].weight = parseInt(value)[1]]
  /\ casita_weights' = saveWeights(WEIGHTS')
  /\ UNCHANGED <<CONFIG, CONDITIONS, REF_M2, dolarEstimado, p, costs, quita, attr, calls, state, autoRefreshInterval, timers, hidden, enVuelo, compraState, nube, ultimoCambio>>

\* updateWeightDisplay(key, value): WEIGHTS[key].weight = parseInt(value), the
\* label updated, nothing saved and no render
updateWeightDisplay ==
  /\ \E key \in ClavesPeso, value \in ValoresSlider :
       WEIGHTS' = [WEIGHTS EXCEPT ![key].weight = parseInt(value)[1]]
  /\ UNCHANGED <<CONFIG, CONDITIONS, REF_M2, casita_weights, dolarEstimado, p, costs, quita, attr, calls, state, autoRefreshInterval, timers, hidden, enVuelo, compraState, nube, ultimoCambio>>

\* toggleWeightEnabled(key, enabled)
toggleWeightEnabled ==
  /\ \E key \in ClavesPeso, enabled \in BOOLEAN :
       WEIGHTS' = [WEIGHTS EXCEPT ![key].enabled = enabled]
  /\ casita_weights' = saveWeights(WEIGHTS')
  /\ UNCHANGED <<CONFIG, CONDITIONS, REF_M2, dolarEstimado, p, costs, quita, attr, calls, state, autoRefreshInterval, timers, hidden, enVuelo, compraState, nube, ultimoCambio>>

\* resetWeights(), confirmed
resetWeights ==
  /\ WEIGHTS' = DEFAULT_WEIGHTS
  /\ casita_weights' = saveWeights(WEIGHTS')
  /\ UNCHANGED <<CONFIG, CONDITIONS, REF_M2, dolarEstimado, p, costs, quita, attr, calls, state, autoRefreshInterval, timers, hidden, enVuelo, compraState, nube, ultimoCambio>>

\* the page is loaded again: let WEIGHTS = loadWeights()
recargar ==
  /\ WEIGHTS' = loadWeights(casita_weights)
  /\ UNCHANGED <<CONFIG, CONDITIONS, REF_M2, casita_weights, dolarEstimado, p, costs, quita, attr, calls, state, autoRefreshInterval, timers, hidden, enVuelo, compraState, nube, ultimoCambio>>

NextWeights ==
  \/ updateWeight
  \/ updateWeightDisplay
  \/ toggleWeightEnabled
  \/ resetWeights
  \/ recargar

SpecWeights == InitWeights /\ [][NextWeights]_vars

-----------------------------------------------------------------------------
(* The list: getFiltered on the evaluated rows *)

\* getProperties() = parseCSV(state.rawData).map(calculateProperty)
getProperties == [i \in 1..Len(p) |-> calculateProperty(p[i])]

\* the comparator of result.sort for state.sortBy = 'score', ignoring the tier
sortCompare_sinTier(a, b) ==
  IF state.sortDir = "asc" THEN a._score - b._score ELSE b._score - a._score

\* the comparator of result.sort: by tier and then score for 'score', by the
\* '_' + sortBy field for the other columns (1 or -1)
sortCompare(a, b) ==
  IF state.sortBy = "score"
  THEN IF a._tier # b._tier
       THEN IF state.sortDir = "asc" THEN b._tier - a._tier ELSE a._tier - b._tier
       ELSE IF state.sortDir = "asc" THEN a._score - b._score ELSE b._score - a._score
  ELSE LET va == a._precio
           vb == b._precio
       IN IF state.sortDir = "asc" THEN (IF va > vb THEN 1 ELSE -1)
          ELSE (IF va < vb THEN 1 ELSE -1)

\* s, already in order, with e put behind the last element that does not
\* compare greater than it
insertSorted(s, e) ==
  LET atras == {0} \cup { i \in 1..Len(s) : sortCompare(s[i], e) <= 0 }
      k == CHOOSE i \in atras : \A j \in atras : j <= i
  IN SubSeq(s, 1, k) \o <<e>> \o SubSeq(s, k + 1, Len(s))

\* Array.prototype.sort(compare): the stable order of a consistent comparator
RECURSIVE sort(_)
sort(s) ==
  IF s = <<>> THEN <<>>
  ELSE insertSorted(sort(SubSeq(s, 1, Len(s) - 1)), s[Len(s)])

\* state.filterOk: 'ok' keeps p._ok, 'no' keeps !p._ok
pasaFiltroOk(e) ==
  IF state.filterOk = "ok" THEN e._ok
  ELSE IF state.filterOk = "no" THEN ~e._ok
  ELSE TRUE

\* getFiltered(properties): the filters, then the sort
getFiltered(properties) == sort(SelectSeq(properties, pasaFiltroOk))

\* the rows of the sheets the list is shown for: three prices, so that a sort
\* by price meets no two equal keys
PreciosLista == { toString(90000), toString(105000), toString(120000) }
CreditosLista == { Si, No, <<"?">> }
FilasLista ==
  { [ link |-> <<"h", "t", "t", "p">>, activo |-> Si, apto_credito |-> c, precio |-> pr,
      m2_cub |-> toString(60), barrio |-> "Flores",
      inmobiliaria |-> <<"R", "e", "m", "a", "x">>,
      amb |-> toString(3), banos |-> toString(1), antiguedad |-> toString(40),
      expensas |-> Vacio, terraza |-> t, balcon |-> No, cocheras |-> toString(0),
      luminosidad |-> Vacio, disposicion |-> <<"f", "r", "e", "n", "t", "e">> ] :
    c \in CreditosLista, pr \in PreciosLista, t \in {Si, No} }

MaxFilas == 3

\* the sheets: up to MaxFilas rows of pairwise different prices
Hojas ==
  UNION { { s \in [1..n -> FilasLista] :
              \A i, j \in 1..n : i # j => s[i].precio # s[j].precio } :
          n \in 1..MaxFilas }

\* fetchData(): new sheet contents, then render()
fetchDataLista ==
  /\ p = <<>>
  /\ p' \in Hojas
  /\ UNCHANGED <<CONFIG, CONDITIONS, WEIGHTS, REF_M2, casita_weights, dolarEstimado, costs, quita, attr, calls, state, autoRefreshInterval, timers, hidden, enVuelo, compraState, nube, ultimoCambio>>

\* the sort select: state.sortBy = this.value; render()
setSortBy ==
  /\ \E value \in {"score", "precio"} :
       /\ state.sortBy # value
       /\ state' = [state EXCEPT !.sortBy = value]
  /\ UNCHANGED <<CONFIG, CONDITIONS, WEIGHTS, REF_M2, casita_weights, dolarEstimado, p, costs, quita, attr, calls, autoRefreshInterval, timers, hidden, enVuelo, compraState, nube, ultimoCambio>>

\* the direction button: state.sortDir = state.sortDir === 'asc' ? 'desc' : 'asc'; render()
toggleSortDir ==
  /\ state' = [state EXCEPT !.sortDir = IF state.sortDir = "asc" THEN "desc" ELSE "asc"]
  /\ UNCHANGED <<CONFIG, CONDITIONS, WEIGHTS, REF_M2, casita_weights, dolarEstimado, p, costs, quita, attr, calls, autoRefreshInterval, timers, hidden, enVuelo, compraState, nube, ultimoCambio>>

\* the budget filter select: state.filterOk = this.value; render()
setFilterOk ==
  /\ \E value \in {"todos", "ok", "no"} :
       /\ state.filterOk # value
       /\ state' = [state EXCEPT !.filterOk = value]
  /\ UNCHANGED <<CONFIG, CONDITIONS, WEIGHTS, REF_M2, casita_weights, dolarEstimado, p, costs, quita, attr, calls, autoRefreshInterval, timers, hidden, enVuelo, compraState, nube, ultimoCambio>>

NextLista ==
  \/ fetchDataLista
  \/ setSortBy
  \/ toggleSortDir
  \/ setFilterOk

SpecLista == InitBase /\ [][NextLista]_vars

\* what render() shows
filtered == getFiltered(getProperties)

\* C21: sorted by score in descending direction, the list is ordered by tier
\* first and by score only within a tier: no record stands before a record of
\* a strictly better tier, and within a tier the scores do not increase; the
\* list holds exactly the records that pass the filters.
C21_TierThenScore ==
  (state.sortBy = "score" /\ state.sortDir = "desc") =>
    LET r == filtered IN
      /\ Len(r) = Cardinality({ i \in 1..Len(p) : pasaFiltroOk(getProperties[i]) })
      /\ \A i \in 1..Len(r) : \E j \in 1..Len(p) : r[i] = getProperties[j]
      /\ \A i, j \in 1..Len(r) :
           i < j => /\ r[i]._tier <= r[j]._tier
                    /\ (r[i]._tier = r[j]._tier => r[i]._score >= r[j]._score)

\* a list sorted by score, descending, where a record of a worse tier with a
\* higher score stands behind a record of a better tier, and two records of
\* one tier stand by score
C21_Witness ==
  /\ state.sortBy = "score" /\ state.sortDir = "desc"
  /\ LET r == filtered IN
       /\ \E i, j \in 1..Len(r) :
            i < j /\ r[i]._tier < r[j]._tier /\ r[i]._score < r[j]._score
       /\ \E i, j \in 1..Len(r) :
            i < j /\ r[i]._tier = r[j]._tier /\ r[i]._score > r[j]._score

-----------------------------------------------------------------------------
(* api.js: the sheet fetch, the auto-refresh timer and the detail modal *)

\* charCodeAt of the characters of the sheets below
charCodeAt(c) ==
  CASE c = "a" -> 97 [] c = "b" -> 98 [] c = "," -> 44 [] c = ";" -> 59
    [] c = "1" -> 49 [] c = "2" -> 50 [] OTHER -> 63

\* the 32 bits of hash as two halves of HalfWord values: <<high, low>>
HalfWord == 65536

\* simpleHash(str): hash = ((hash << 5) - hash) + str.charCodeAt(i); hash |= 0
RECURSIVE simpleHashFrom(_, _)
simpleHashFrom(hash, str) ==
  IF str = <<>> THEN hash
  ELSE LET low  == 31 * hash[2] + charCodeAt(Head(str))
           high == 31 * hash[1] + low \div HalfWord
       IN simpleHashFrom(<<high % HalfWord, low % HalfWord>>, Tail(str))

simpleHash(str) == simpleHashFrom(<<0, 0>>, str)

\* config.js: the sample sheet shown when nothing could be loaded
SAMPLE_CSV == <<"a", ",", "b", ";", "2">>

\* arrayToCSV(data.values) of the answers of the Sheets API (";" a line break)
HojasCSV == { <<"a", ",", "b", ";", "1">>, <<"a", ",", "b", ";", "1", "1">> }

\* what a request of fetchData meets: a sheet, a sheet without rows, no answer
RespuestasSheets ==
  { [ok |-> TRUE, newData |-> t] : t \in HojasCSV }
  \cup { [ok |-> FALSE, message |-> "Error: No hay datos"],
         [ok |-> FALSE, message |-> "Error: Sheets API"] }

\* Math.round(data.venta) of the answers of the FX API, NULL for no answer
VentasDolar == { NULL, 1200 }

MaxEnVuelo == 2

\* the timer, its registration and the flag, as the three functions pass them on
Refresco == [ interval |-> autoRefreshInterval, timers |-> timers,
              enabled |-> state.autoRefreshEnabled ]

\* setInterval: an id no timer that is set has
setInterval(ts) == CHOOSE id \in 1..(Cardinality(ts) + 1) : id \notin ts

\* stopAutoRefresh()
stopAutoRefresh(m) ==
  [ interval |-> NULL,
    timers   |-> IF m.interval # NULL THEN m.timers \ {m.interval} ELSE m.timers,
    enabled  |-> FALSE ]

\* A plausible slip: the running timer not cleared before a new one is set
startAutoRefresh_sinStop(m, segundos, oculto) ==
  IF segundos > 0 /\ ~oculto
  THEN [ interval |-> setInterval(m.timers),
         timers   |-> m.timers \cup {setInterval(m.timers)},
         enabled  |-> TRUE ]
  ELSE stopAutoRefresh(m)

\* startAutoRefresh(), reading CONFIG.AUTO_REFRESH = segundos and
\* document.hidden = oculto
startAutoRefresh(m, segundos, oculto) ==
  LET s == stopAutoRefresh(m) IN
    IF segundos > 0 /\ ~oculto
    THEN [ interval |-> setInterval(s.timers),
           timers   |-> s.timers \cup {setInterval(s.timers)},
           enabled  |-> TRUE ]
    ELSE s

\* the state after init(): the configuration as loadConfig found it, the
\* first fetchData() and fetchDolarBNA() awaiting their answers, and
\* startAutoRefresh() done, in a tab that is shown or in the background
InitRefresh ==
  /\ CONFIG \in { DEFAULT_CONFIG, [DEFAULT_CONFIG EXCEPT !.AUTO_REFRESH = 0] }
  /\ hidden \in BOOLEAN
  /\ LET m == startAutoRefresh([interval |-> NULL, timers |-> {}, enabled |-> FALSE],
                               CONFIG.AUTO_REFRESH, hidden)
     IN /\ autoRefreshInterval = m.interval
        /\ timers = m.timers
        /\ state = [InitialState EXCEPT !.loading = TRUE, !.autoRefreshEnabled = m.enabled]
  /\ enVuelo = << [fn |-> "fetchData", silent |-> FALSE], [fn |-> "init"] >>
  /\ compraState = [propertyKey |-> NULL, senaUSD |-> 0]
  /\ nube = <<>>
  /\ ultimoCambio = <<>>
  /\ CONDITIONS = DEFAULT_CONDITIONS
  /\ WEIGHTS = DEFAULT_WEIGHTS
  /\ REF_M2 = DEFAULT_REF_M2
  /\ casita_weights = <<>>
  /\ dolarEstimado = NULL
  /\ p = <<>>
  /\ costs = NoCall
  /\ quita = NoCall
  /\ attr = NoCall
  /\ calls = <<>>

\* what the handlers of this section leave alone
varsEngine == <<CONDITIONS, WEIGHTS, REF_M2, casita_weights, p, costs, quita, attr, calls>>
varsCompra == <<compraState, nube, ultimoCambio>>

\* showDetail(idx), from a click on a row of the list: the modal opens and the
\* auto-refresh pauses
showDetail ==
  /\ state.rawData # <<>>
  /\ state.selectedProperty = NULL
  /\ \E idx \in {0} :
       LET m == IF state.autoRefreshEnabled THEN stopAutoRefresh(Refresco) ELSE Refresco
       IN /\ state' = [state EXCEPT !.selectedProperty = idx,
                                    !.negotiationPct = CONFIG.NEGOCIACION,
                                    !.wasAutoRefreshing = IF state.autoRefreshEnabled THEN TRUE ELSE @,
                                    !.autoRefreshEnabled = m.enabled]
          /\ autoRefreshInterval' = m.interval
          /\ timers' = m.timers
  /\ dolarEstimado' = NULL
  /\ UNCHANGED <<CONFIG, hidden, enVuelo, varsEngine, varsCompra>>

\* closeDetail(): the modal closes and the auto-refresh resumes if it was paused
closeDetail ==
  /\ state.selectedProperty # NULL
  /\ LET m == IF state.wasAutoRefreshing
              THEN startAutoRefresh(Refresco, CONFIG.AUTO_REFRESH, hidden)
              ELSE Refresco
     IN /\ state' = [state EXCEPT !.selectedProperty = NULL,
                                  !.negotiationPct = 0,
                                  !.wasAutoRefreshing = FALSE,
                                  !.autoRefreshEnabled = m.enabled]
        /\ autoRefreshInterval' = m.interval
        /\ timers' = m.timers
  /\ dolarEstimado' = NULL
  /\ UNCHANGED <<CONFIG, hidden, enVuelo, varsEngine, varsCompra>>

\* toggleAutoRefresh()
toggleAutoRefresh ==
  /\ LET m == IF state.autoRefreshEnabled THEN stopAutoRefresh(Refresco)
              ELSE startAutoRefresh(Refresco, CONFIG.AUTO_REFRESH, hidden)
     IN /\ state' = [state EXCEPT !.autoRefreshEnabled = m.enabled]
        /\ autoRefreshInterval' = m.interval
        /\ timers' = m.timers
  /\ UNCHANGED <<CONFIG, hidden, enVuelo, dolarEstimado, varsEngine, varsCompra>>

\* the visibilitychange listener, the tab going to the background or coming back
visibilitychange ==
  /\ hidden' = ~hidden
  /\ IF hidden'
     THEN LET m == IF state.autoRefreshEnabled THEN stopAutoRefresh(Refresco) ELSE Refresco
          IN /\ state' = [state EXCEPT !.wasAutoRefreshing = IF state.autoRefreshEnabled THEN TRUE ELSE @,
                                       !.autoRefreshEnabled = m.enabled]
             /\ autoRefreshInterval' = m.interval
             /\ timers' = m.timers
     ELSE LET m == IF state.wasAutoRefreshing
                   THEN startAutoRefresh(Refresco, CONFIG.AUTO_REFRESH, hidden')
                   ELSE Refresco
          IN /\ state' = [state EXCEPT !.wasAutoRefreshing = FALSE,
                                       !.autoRefreshEnabled = m.enabled]
             /\ autoRefreshInterval' = m.interval
             /\ timers' = m.timers
  /\ UNCHANGED <<CONFIG, enVuelo, dolarEstimado, varsEngine, varsCompra>>

\* the Auto-refresh input of the configuration panel:
\* updateConfig('AUTO_REFRESH', parseInt(this.value)); startAutoRefresh()
updateConfigAutoRefresh ==
  /\ \E value \in { toString(0), toString(10) } :
       /\ CONFIG.AUTO_REFRESH # parseInt(value)[1]
       /\ CONFIG' = [CONFIG EXCEPT !.AUTO_REFRESH = parseInt(value)[1]]
  /\ LET m == startAutoRefresh(Refresco, CONFIG'.AUTO_REFRESH, hidden)
     IN /\ state' = [state EXCEPT !.autoRefreshEnabled = m.enabled]
        /\ autoRefreshInterval' = m.interval
        /\ timers' = m.timers
  /\ UNCHANGED <<hidden, enVuelo, dolarEstimado, varsEngine, varsCompra>>

\* the interval timer fires: fetchData({ silent: true }) sends its request
tick ==
  /\ timers # {}
  /\ Len(enVuelo) < MaxEnVuelo
  /\ enVuelo' = Append(enVuelo, [fn |-> "fetchData", silent |-> TRUE])
  /\ UNCHANGED <<CONFIG, state, autoRefreshInterval, timers, hidden, dolarEstimado, varsEngine, varsCompra>>

\* the refresh button: fetchData() shows the loading mark, forgets the error
\* and sends its request
fetchDataManual ==
  /\ ~state.loading
  /\ Len(enVuelo) < MaxEnVuelo
  /\ state' = [state EXCEPT !.loading = TRUE, !.error = <<>>]
  /\ enVuelo' = Append(enVuelo, [fn |-> "fetchData", silent |-> FALSE])
  /\ UNCHANGED <<CONFIG, autoRefreshInterval, timers, hidden, dolarEstimado, varsEngine, varsCompra>>

\* s without its i-th element
Quitar(s, i) == SubSeq(s, 1, i - 1) \o SubSeq(s, i + 1, Len(s))

\* state after the request of a fetchData call has met the answer r
fetchDataThen(silent, r) ==
  IF r.ok
  THEN IF simpleHash(r.newData) # state.dataHash
       THEN [state EXCEPT !.rawData = r.newData, !.dataHash = simpleHash(r.newData),
                          !.error = <<>>,
                          !.loading = IF silent THEN @ ELSE FALSE]
       ELSE IF ~silent THEN [state EXCEPT !.loading = FALSE]
       ELSE state
  ELSE [state EXCEPT !.error = <<r.message>>,
                     !.rawData = IF @ = <<>> THEN SAMPLE_CSV ELSE @,
                     !.loading = IF silent THEN @ ELSE FALSE]

\* a fetchData call resumes after its await, with a sheet or in the catch
fetchDataCompletes ==
  /\ \E i \in 1..Len(enVuelo), r \in RespuestasSheets :
       /\ enVuelo[i].fn = "fetchData"
       /\ state' = fetchDataThen(enVuelo[i].silent, r)
       /\ enVuelo' = Quitar(enVuelo, i)
  /\ UNCHANGED <<CONFIG, autoRefreshInterval, timers, hidden, dolarEstimado, varsEngine, varsCompra>>

\* init(): fetchDolarBNA().then(data => ...), the live rate arriving or not
initDolarThen ==
  /\ \E i \in 1..Len(enVuelo), venta \in VentasDolar :
       /\ enVuelo[i].fn = "init"
       /\ enVuelo' = Quitar(enVuelo, i)
       /\ IF venta # NULL
          THEN /\ dolarEstimado' = venta
               /\ CONFIG' = [CONFIG EXCEPT !.DOLAR_BASE = venta]
          ELSE UNCHANGED <<dolarEstimado, CONFIG>>
  /\ UNCHANGED <<state, autoRefreshInterval, timers, hidden, varsEngine, varsCompra>>

NextRefresh ==
  \/ showDetail
  \/ closeDetail
  \/ toggleAutoRefresh
  \/ visibilitychange
  \/ updateConfigAutoRefresh
  \/ tick
  \/ fetchDataManual
  \/ fetchDataCompletes
  \/ initDolarThen

SpecRefresh == InitRefresh /\ [][NextRefresh]_vars

\* C23 as stated: while the detail modal is open no auto-refresh interval
\* timer is active, for every interleaving of showDetail, closeDetail, tab
\* visibility changes, toggleAutoRefresh and startAutoRefresh.
C23_NoTimerWhileModalOpen ==
  state.selectedProperty # NULL => timers = {}

\* C24: at most one interval timer exists, it is the one autoRefreshInterval
\* names, state.autoRefreshEnabled is true exactly when a timer is
\* registered, and no timer is registered while the tab is hidden.
C24_OneTimerIffEnabled ==
  /\ Cardinality(timers) <= 1
  /\ timers = (IF autoRefreshInterval = NULL THEN {} ELSE {autoRefreshInterval})
  /\ state.autoRefreshEnabled <=> (autoRefreshInterval # NULL)
  /\ hidden => timers = {}

\* the tab went to the background while the timer ran: the timer is cleared
\* and remembered
C24_Witness ==
  /\ hidden
  /\ state.wasAutoRefreshing
  /\ ~state.autoRefreshEnabled
  /\ autoRefreshInterval = NULL
  /\ timers = {}
  /\ CONFIG.AUTO_REFRESH > 0
  /\ state.rawData # <<>>


\* C25 as stated: whenever a fetchData call, manual or silent, completes
\* successfully, state.error is null afterwards, also when the fetched data
\* is identical to the data already loaded.
C25_SuccessClearsError ==
  [][ (\E i \in 1..Len(enVuelo), r \in RespuestasSheets :
         /\ enVuelo[i].fn = "fetchData"
         /\ r.ok
         /\ state' = fetchDataThen(enVuelo[i].silent, r)
         /\ enVuelo' = Quitar(enVuelo, i))
      => state'.error = <<>> ]_vars

-----------------------------------------------------------------------------
(* The simulated FX rate of the detail modal and the live-rate loads *)

\* positions of the "Dólar estimado" slider of the modal
ValoresDolarSlider == { toString(900), toString(1500) }

\* updateDolarEstimado(valor): state.dolarEstimado = valor ? parseInt(valor) : null
updateDolarEstimado ==
  /\ state.selectedProperty # NULL
  /\ \E valor \in ValoresDolarSlider :
       /\ dolarEstimado' = (IF valor # <<>> THEN parseInt(valor)[1] ELSE NULL)
       /\ dolarEstimado' # dolarEstimado
  /\ UNCHANGED <<CONFIG, state, autoRefreshInterval, timers, hidden, enVuelo, varsEngine, varsCompra>>

\* the reload button of the header: cargarDolarHoy() up to its await
cargarDolarHoyStart ==
  /\ ~state.loadingDolar
  /\ Len(enVuelo) < MaxEnVuelo
  /\ state' = [state EXCEPT !.loadingDolar = TRUE]
  /\ enVuelo' = Append(enVuelo, [fn |-> "cargarDolarHoy"])
  /\ UNCHANGED <<CONFIG, autoRefreshInterval, timers, hidden, dolarEstimado, varsEngine, varsCompra>>

\* cargarDolarHoy() after its await, the live rate arriving or not
cargarDolarHoyThen ==
  /\ \E i \in 1..Len(enVuelo), venta \in VentasDolar :
       /\ enVuelo[i].fn = "cargarDolarHoy"
       /\ enVuelo' = Quitar(enVuelo, i)
       /\ IF venta # NULL
          THEN /\ dolarEstimado' = venta
               /\ CONFIG' = [CONFIG EXCEPT !.DOLAR_BASE = venta]
          ELSE UNCHANGED <<dolarEstimado, CONFIG>>
  /\ state' = [state EXCEPT !.loadingDolar = FALSE]
  /\ UNCHANGED <<autoRefreshInterval, timers, hidden, varsEngine, varsCompra>>

NextDolar ==
  \/ showDetail
  \/ closeDetail
  \/ updateDolarEstimado
  \/ cargarDolarHoyStart
  \/ cargarDolarHoyThen
  \/ initDolarThen
  \/ fetchDataCompletes

SpecDolar == InitRefresh /\ [][NextDolar]_vars

\* C26 as stated: while the detail modal is open, the simulated FX rate the
\* user chose with the slider changes only through the user's own slider
\* actions or by closing the modal; the completion of a live-rate load
\* (cargarDolarHoy or the fetch of init) never overwrites it.
C26_LiveRateKeepsSimulation ==
  [][ (/\ state.selectedProperty # NULL
       /\ dolarEstimado # NULL
       /\ dolarEstimado' # dolarEstimado)
      => (state'.selectedProperty = NULL \/ enVuelo' = enVuelo) ]_vars

-----------------------------------------------------------------------------
(* The purchase tracker: compraState, its cloud copy and initCompra *)

\* propertyKey of the listings of the sheet; NULL is no listing
Claves == {1, 2}

\* the contents of the Seña input
ValoresSena == { Vacio, toString(500) }

\* what the page finds stored under casita_compra, and in the Compra tab of
\* the sheet (NoRow: the tab has no data row)
NoRow == <<>>
ComprasGuardadas ==
  { [propertyKey |-> NULL, senaUSD |-> 0], [propertyKey |-> 1, senaUSD |-> 500] }
ComprasNube ==
  { NoRow, <<[propertyKey |-> NULL, senaUSD |-> 0]>>, <<[propertyKey |-> 2, senaUSD |-> 0]>> }

\* CONFIG.APPS_SCRIPT_URL is set
ConAppsScript == "APPS_SCRIPT_URL" \in DOMAIN CONFIG

\* the state of initCompra once fetchData() has answered and the requests of
\* its Promise.all are sent: the live rate and the Compra tab
InitCompra ==
  /\ CONFIG \in { DEFAULT_CONFIG, DEFAULT_CONFIG @@ [APPS_SCRIPT_URL |-> "https"] }
  /\ state = [InitialState EXCEPT !.rawData = SAMPLE_CSV, !.dataHash = simpleHash(SAMPLE_CSV)]
  /\ compraState \in ComprasGuardadas
  /\ nube \in ComprasNube
  /\ ultimoCambio = <<>>
  /\ enVuelo = << [fn |-> "fetchCompraData"], [fn |-> "fetchDolarBNA"] >>
  /\ autoRefreshInterval = NULL
  /\ timers = {}
  /\ hidden = FALSE
  /\ CONDITIONS = DEFAULT_CONDITIONS
  /\ WEIGHTS = DEFAULT_WEIGHTS
  /\ REF_M2 = DEFAULT_REF_M2
  /\ casita_weights = <<>>
  /\ dolarEstimado = NULL
  /\ p = <<>>
  /\ costs = NoCall
  /\ quita = NoCall
  /\ attr = NoCall
  /\ calls = <<>>

\* saveCompraData(compra): nothing without CONFIG.APPS_SCRIPT_URL, else a POST
\* of { propertyKey, senaUSD } as they are at the call
saveCompraData(pendientes, compra) ==
  IF ConAppsScript
  THEN Append(pendientes, [fn |-> "saveCompraData", compra |-> compra])
  ELSE pendientes

\* selectProperty(idx), from the select of the listings
selectProperty ==
  /\ Len(enVuelo) < MaxEnVuelo
  /\ \E idx \in Claves :
       /\ compraState.propertyKey # idx
       /\ compraState' = [compraState EXCEPT !.propertyKey = idx]
  /\ enVuelo' = saveCompraData(enVuelo, compraState')
  /\ ultimoCambio' = <<compraState'>>
  /\ UNCHANGED <<CONFIG, state, autoRefreshInterval, timers, hidden, nube, dolarEstimado, varsEngine>>

\* clearSelection()
clearSelection ==
  /\ Len(enVuelo) < MaxEnVuelo
  /\ compraState.propertyKey # NULL
  /\ compraState' = [propertyKey |-> NULL, senaUSD |-> 0]
  /\ enVuelo' = saveCompraData(enVuelo, compraState')
  /\ ultimoCambio' = <<compraState'>>
  /\ UNCHANGED <<CONFIG, state, autoRefreshInterval, timers, hidden, nube, dolarEstimado, varsEngine>>

\* updateSena(value): compraState.senaUSD = parseInt(value) || 0
updateSena ==
  /\ Len(enVuelo) < MaxEnVuelo
  /\ compraState.propertyKey # NULL
  /\ \E value \in ValoresSena :
       /\ compraState.senaUSD # NumOr(parseInt(value), 0)
       /\ compraState' = [compraState EXCEPT !.senaUSD = NumOr(parseInt(value), 0)]
  /\ enVuelo' = saveCompraData(enVuelo, compraState')
  /\ ultimoCambio' = <<compraState'>>
  /\ UNCHANGED <<CONFIG, state, autoRefreshInterval, timers, hidden, nube, dolarEstimado, varsEngine>>

\* fetchCompraData() answers (the second row of the tab, or null for a tab
\* without rows or a failed request) and the .then of initCompra runs
fetchCompraDataThen ==
  /\ \E i \in 1..Len(enVuelo), cloudData \in {nube, NoRow} :
       /\ enVuelo[i].fn = "fetchCompraData"
       /\ IF cloudData # NoRow /\ cloudData[1].propertyKey # NULL
          THEN /\ compraState' = cloudData[1]
               /\ enVuelo' = Quitar(enVuelo, i)
          ELSE /\ UNCHANGED compraState
               /\ enVuelo' = IF compraState.propertyKey # NULL
                             THEN saveCompraData(Quitar(enVuelo, i), compraState)
                             ELSE Quitar(enVuelo, i)
  /\ UNCHANGED <<CONFIG, state, autoRefreshInterval, timers, hidden, nube, ultimoCambio, dolarEstimado, varsEngine>>

\* the POST of saveCompraData reaches the Apps Script, which writes the row
saveCompraDataThen ==
  /\ \E i \in 1..Len(enVuelo) :
       /\ enVuelo[i].fn = "saveCompraData"
       /\ nube' = <<enVuelo[i].compra>>
       /\ enVuelo' = Quitar(enVuelo, i)
  /\ UNCHANGED <<CONFIG, state, autoRefreshInterval, timers, hidden, compraState, ultimoCambio, dolarEstimado, varsEngine>>

\* initCompra: fetchDolarBNA().then(data => ...), the live rate arriving or not
initCompraDolarThen ==
  /\ \E i \in 1..Len(enVuelo), venta \in VentasDolar :
       /\ enVuelo[i].fn = "fetchDolarBNA"
       /\ enVuelo' = Quitar(enVuelo, i)
       /\ CONFIG' = IF venta # NULL THEN [CONFIG EXCEPT !.DOLAR_BASE = venta] ELSE CONFIG
  /\ UNCHANGED <<state, autoRefreshInterval, timers, hidden, compraState, nube, ultimoCambio, dolarEstimado, varsEngine>>

NextCompra ==
  \/ selectProperty
  \/ clearSelection
  \/ updateSena
  \/ fetchCompraDataThen
  \/ saveCompraDataThen
  \/ initCompraDolarThen

SpecCompra == InitCompra /\ [][NextCompra]_vars

\* C27 as stated: a change made by the user (selectProperty, clearSelection,
\* updateSena) is never overwritten by cloud data requested before the change:
\* once the requests of initCompra have completed, the local compra state
\* equals the user's last change.
C27_UserChangeSurvivesCloud ==
  (/\ ultimoCambio # <<>>
   /\ \A i \in 1..Len(enVuelo) : enVuelo[i].fn \notin {"fetchCompraData", "fetchDolarBNA"})
  => compraState = ultimoCambio[1]

-----------------------------------------------------------------------------
(* components.js: the detail modal and its cost breakdown *)

\* the rows the modal is opened on
FilasModal ==
  { row \in FilasRecord : row.m2_cub = toString(70) /\ row.barrio = "Parque Avellaneda" }

\* positions of the "Negociar" slider, in half percents: 0, 5 and 15 %
NegociacionesModal == { 0, 10, 30 }

\* the state once init() is through and the sheet has arrived
InitModal ==
  /\ CONFIG = DEFAULT_CONFIG
  /\ hidden = FALSE
  /\ LET m == startAutoRefresh([interval |-> NULL, timers |-> {}, enabled |-> FALSE],
                               CONFIG.AUTO_REFRESH, hidden)
     IN /\ autoRefreshInterval = m.interval
        /\ timers = m.timers
        /\ state = [InitialState EXCEPT !.rawData = SAMPLE_CSV,
                                        !.dataHash = simpleHash(SAMPLE_CSV),
                                        !.autoRefreshEnabled = m.enabled]
  /\ enVuelo = <<>>
  /\ compraState = [propertyKey |-> NULL, senaUSD |-> 0]
  /\ nube = <<>>
  /\ ultimoCambio = <<>>
  /\ CONDITIONS = DEFAULT_CONDITIONS
  /\ WEIGHTS = DEFAULT_WEIGHTS
  /\ REF_M2 = DEFAULT_REF_M2
  /\ casita_weights = <<>>
  /\ dolarEstimado = NULL
  /\ p \in { <<row>> : row \in FilasModal }
  /\ costs = NoCall
  /\ quita = NoCall
  /\ attr = NoCall
  /\ calls = <<>>

\* fetchData(): new sheet contents, then render()
fetchDataModal ==
  /\ \E row \in FilasModal :
       /\ p # <<row>>
       /\ p' = <<row>>
  /\ UNCHANGED <<CONFIG, CONDITIONS, WEIGHTS, REF_M2, casita_weights, state, autoRefreshInterval, timers, hidden, enVuelo, compraState, nube, ultimoCambio, dolarEstimado, costs, quita, attr, calls>>

\* updateNegotiation(pct): state.negotiationPct = parseFloat(pct); render()
updateNegotiation ==
  /\ state.selectedProperty # NULL
  /\ \E pct \in NegociacionesModal :
       /\ state.negotiationPct # pct
       /\ state' = [state EXCEPT !.negotiationPct = pct]
  /\ UNCHANGED <<CONFIG, CONDITIONS, WEIGHTS, REF_M2, casita_weights, autoRefreshInterval, timers, hidden, enVuelo, compraState, nube, ultimoCambio, dolarEstimado, p, costs, quita, attr, calls>>

NextModal ==
  \/ fetchDataModal
  \/ updateConfigRecord
  \/ cargarDolarHoyRecord
  \/ showDetail
  \/ closeDetail
  \/ updateNegotiation
  \/ updateDolarEstimado

SpecModal == InitModal /\ [][NextModal]_vars

\* renderCostsBreakdown(p, costsNeg, hayAjuste, ahorro): the lines and the
\* figures under them; the value of the down payment in tenths of a USD, the
\* others in USD
renderCostsBreakdown(row, e, costsNeg, hayAjuste) ==
  [ costItems |->
        << [label |-> "Anticipo",    value |-> IF hayAjuste THEN costsNeg.tu10 ELSE e._tu10],
           [label |-> "Escribano",   value |-> IF hayAjuste THEN costsNeg.escr ELSE e._escr],
           [label |-> "Sellos",      value |-> IF hayAjuste THEN costsNeg.sell ELSE e._sell],
           [label |-> "Registrales", value |-> IF hayAjuste THEN costsNeg.reg ELSE e._reg] >>
        \o (IF row.inmobiliaria # Vacio
            THEN << [label |-> "Inmobiliaria",
                     value |-> IF hayAjuste THEN costsNeg.inmob ELSE e._inmob] >>
            ELSE << >>)
        \o << [label |-> "Hipoteca",     value |-> IF hayAjuste THEN costsNeg.hip ELSE e._hip],
              [label |-> "Certificados", value |-> costsNeg.cert] >>,
    totalOk  |-> IF hayAjuste THEN costsNeg.ok ELSE e._ok,
    totalVal |-> IF hayAjuste THEN costsNeg.total ELSE e._total,
    difVal   |-> IF hayAjuste THEN costsNeg.dif ELSE e._dif ]

\* renderDetailModal(p): what the modal computes and which blocks it shows
renderDetailModal(row, e) ==
  LET dolarActual == OrElse(dolarEstimado, CONFIG.DOLAR_BASE)
      tieneInmob  == ~esVentaDirecta(row.inmobiliaria)
      costsNeg    == calculateCosts(e._precio, tieneInmob, dolarActual, state.negotiationPct)
      hayAjusteDolar == dolarEstimado # NULL /\ dolarEstimado # 0
                        /\ dolarEstimado # CONFIG.DOLAR_BASE
      hayAjuste   == state.negotiationPct > 0 \/ hayAjusteDolar
      quitaNec    == calculateQuitaNecesaria(e._precio, tieneInmob, dolarActual)
  IN [ costsNeg  |-> costsNeg,
       hayAjuste |-> hayAjuste,
       quita     |-> quitaNec,
       simulador |-> e._precio > 0,
       sugerencia |-> e._precio > 0 /\ ~costsNeg.ok /\ quitaNec.quitaNum > 0,
       desglose  |-> renderCostsBreakdown(row, e, costsNeg, hayAjuste) ]

\* render(): the modal of the selected listing, if one is selected
modal ==
  IF state.selectedProperty = NULL \/ p = <<>> THEN <<>>
  ELSE <<renderDetailModal(p[1], calc[1])>>

\* the lines of a breakdown added up, in tenths of a USD
SumaLineas(items) ==
  items[1].value
  + Decimos * SumOver([i \in 2..Len(items) |-> items[i].value], 2..Len(items))

\* C28 as stated: in the detail modal the cost lines shown in the breakdown
\* always sum to the total shown under them, for every listing, with or
\* without a value in the inmobiliaria field and with or without negotiation
\* or FX adjustments.
C28_LinesSumToTotal ==
  (modal # <<>> /\ modal[1].simulador) =>
    SumaLineas(modal[1].desglose.costItems) = modal[1].desglose.totalVal


\* C29 as stated: for every listing with price > 0 and every FX rate, if
\* calculateCosts reports ok = false at any negotiation percentage >= 0, then
\* calculateQuitaNecesaria for the list price reports a discount > 0, so a
\* listing is never over budget without a discount suggestion.
C29_OverBudgetHasSuggestion ==
  (quita # NoCall /\ quita[1].args.precio > 0) =>
    \A pct \in NegociacionesModal :
      ~calculateCosts(quita[1].args.precio, quita[1].args.tieneInmob,
                      quita[1].args.dolar, pct).ok
      => quita[1].res.quitaNum > 0

-----------------------------------------------------------------------------
(* The FX rate getCreditoUSD divides by *)

\* what the "Dólar base" input of the configuration panel may hold
ValoresDolarBase == { Vacio, toString(0), toString(1200) }

\* the "Dólar base" input: updateConfig('DOLAR_BASE', parseInt(this.value))
updateConfigDolarBase ==
  /\ \E value \in ValoresDolarBase :
       LET n == parseInt(value) IN
         /\ CONFIG' = [CONFIG EXCEPT !.DOLAR_BASE = IF n = NaN THEN NULL ELSE n[1]]
         /\ CONFIG' # CONFIG
  /\ UNCHANGED <<state, autoRefreshInterval, timers, hidden, enVuelo, dolarEstimado, varsEngine, varsCompra>>

\* resetConfig(), confirmed: the four tables back to their defaults and saved
resetConfig ==
  /\ CONFIG # DEFAULT_CONFIG
  /\ CONFIG' = DEFAULT_CONFIG
  /\ REF_M2' = DEFAULT_REF_M2
  /\ CONDITIONS' = DEFAULT_CONDITIONS
  /\ WEIGHTS' = DEFAULT_WEIGHTS
  /\ casita_weights' = saveWeights(WEIGHTS')
  /\ UNCHANGED <<state, autoRefreshInterval, timers, hidden, enVuelo, dolarEstimado, p, costs, quita, attr, calls, varsCompra>>

NextDivisor ==
  \/ updateConfigDolarBase
  \/ resetConfig
  \/ showDetail
  \/ closeDetail
  \/ updateDolarEstimado
  \/ cargarDolarHoyStart
  \/ cargarDolarHoyThen
  \/ initDolarThen
  \/ fetchDataCompletes

SpecDivisor == InitRefresh /\ [][NextDivisor]_vars

\* the arguments getCreditoUSD is called with: none, and the rate of the modal
DolaresEnUso == { NULL, OrElse(dolarEstimado, CONFIG.DOLAR_BASE) }

\* C30 as stated: the FX rate used as the divisor in getCreditoUSD is always a
\* positive number, after any sequence of updateConfig('DOLAR_BASE', ...),
\* updateDolarEstimado, resetConfig and live-rate loads: the base rate is
\* never zero, negative or NaN, so the credit in USD is always a finite
\* non-negative integer.
C30_DivisorPositive ==
  \A dolar \in DolaresEnUso :
    /\ OrElse(dolar, CONFIG.DOLAR_BASE) > 0
    /\ getCreditoUSD(dolar) \notin { NULL, Infinity }
    /\ getCreditoUSD(dolar) >= 0

-----------------------------------------------------------------------------
(* Attribute scoring: scoreAttribute on the cells of a row *)

\* the keys calculateProperty scores with scoreAttribute
ClavesAtributo == DOMAIN attrMapping([f \in {"amb", "banos", "antiguedad", "expensas",
                     "terraza", "balcon", "cocheras", "luminosidad", "disposicion"} |-> Vacio])
                  \cup {"m2"}

\* cells without a number
SinNumero == { Vacio, <<"?">>, <<"x">>, Si, <<"S", "í">>, No, Frente, Contrafrente }
\* cells with a leading number
ConNumero == { toString(0), toString(3), toString(60), <<"3", " ", "a", "m", "b">> }
Valores == SinNumero \cup ConNumero

ScoreAttribute ==
  /\ \E key \in ClavesAtributo, valor \in Valores, peso \in 0..PesoMax :
       attr' = <<[ args |-> [key |-> key, valor |-> valor, peso |-> peso],
                   res  |-> scoreAttribute(key, valor, peso) ]>>
  /\ UNCHANGED <<CONFIG, CONDITIONS, WEIGHTS, REF_M2, dolarEstimado, p, costs, quita, calls, casita_weights, state, autoRefreshInterval, timers, hidden, enVuelo, compraState, nube, ultimoCambio>>

NextScore == ScoreAttribute

SpecScore == InitBase /\ [][NextScore]_vars

\* the cells that are empty or that the rule of a key cannot read
Ilegible(key, valor) ==
  LET type == SCORING_RULES[key].type IN
  \/ valor = Vacio
  \/ type = "boolean" /\ valor \notin { Si, <<"S", "í">>, No }
  \/ type = "disposicion" /\ valor \notin { Frente, Contrafrente }
  \/ type \in {"numeric", "threshold", "range"} /\ valor \in SinNumero

\* C3: for a scored attribute of weight > 0, an empty or unreadable cell has
\* status 'missing'; status 'missing' always carries -penaltyMissing * weight,
\* which is negative (-35 for weight 7 and penalty 5); the scored keys never
\* get the zero-valued fallback status of a key without rule.
C3_MissingIsPenalised ==
  attr # NoCall =>
    LET a == attr[1].args
        r == attr[1].res
        rule == SCORING_RULES[a.key]
    IN a.peso > 0 =>
         /\ Ilegible(a.key, a.valor) => r.status = "missing"
         /\ r.status = "missing" =>
              /\ r.score = 0 - rule.penaltyMissing * a.peso
              /\ r.score < 0
              /\ (a.peso = 7 /\ rule.penaltyMissing = 5) => r.score = 0 - 35
         /\ r.status # "unknown"

\* the example of the specification: weight 7, penalty 5, empty cell
C3_Witness ==
  /\ attr # NoCall
  /\ attr[1].args.peso = 7
  /\ attr[1].args.valor = Vacio
  /\ SCORING_RULES[attr[1].args.key].penaltyMissing = 5
  /\ attr[1].res = [score |-> 0 - 35, status |-> "missing"]

====
